---- MODULE Spec2Model ----
(***************************************************************************)
(* Model of the PCI device-assignment subsystem of qubes-core-admin:       *)
(*   - the topology codec of qubes/utils.py (sbdf_to_path, path_to_sbdf,   *)
(*     is_pci_path) evaluated against a sysfs device tree whose bridges    *)
(*     can be renumbered and whose devices can be unplugged;               *)
(*   - the attach / detach handlers of qubes/ext/pci.py;                   *)
(*   - the PCIDevice objects of qubes/ext/pci.py, their lazily loaded      *)
(*     properties and the cache of _cache_get.                             *)
(* Strings are TLA+ strings handled character by character, so that        *)
(* formatting and parsing are modelled by what they do.                    *)
(***************************************************************************)
EXTENDS Integers, Sequences, FiniteSets, TLC

VARIABLES
    sec,        \* sysfs: bridge node -> content of secondary_bus_number (a number)
    present,    \* sysfs: set of nodes that exist in /sys/bus/pci/devices
    port_id,    \* the persisted port identifier (a topology path, or "*")
    port_node,  \* history: the physical node port_id was computed for (0: none)
    drift,      \* history: what happened to the tree since port_id was computed
    call,       \* record of the last call of a codec function
    running,    \* guest -> vm.is_running()
    bound,      \* set of devices bound to the pciback driver
    attached,   \* device -> guest it is live-attached to ("none" if none)
    inv,        \* record of the last handler invocation
    binds,      \* the calls of bind_pci_to_pciback made by that invocation
    heap,       \* the PCIDevice objects constructed so far, by object id
    cache,      \* the entries of the lru_cache of _cache_get
    cleared,    \* history: number of objects that existed at the last cache clear
    warned,     \* unsupported_devices_warned
    acc,        \* record of the last device lookup or property access
    pciids,     \* /usr/share/hwdata/pci.ids: whether it exists, and its lines
    pci_classes,\* qubes.ext.pci.pci_classes: None, or the table of class names
    built,      \* history: number of times load_pci_classes built a table
    cls,        \* record of the last call of pcidev_class
    task,       \* the handler the event loop is running, and its position
    gate,       \* record of the last live part of a handler the loop ran
    tasks,      \* the asyncio tasks void_coros_maybe created
    void        \* record of the last call of void_coros_maybe

topoVars == <<sec, present, port_id, port_node, drift, call>>
pciVars == <<running, bound, attached, inv, binds>>
devVars == <<heap, cache, cleared, warned, acc>>
classVars == <<pciids, pci_classes, built, cls>>
loopVars == <<task, gate, tasks, void>>
vars == <<sec, present, port_id, port_node, drift, call,
          running, bound, attached, inv, binds, heap, cache, cleared, warned,
          acc, pciids, pci_classes, built, cls, task, gate, tasks, void>>

-----------------------------------------------------------------------------
(* Bounds *)

\* largest secondary bus number a bridge can be renumbered to
MaxBus == 11

\* largest number of PCIDevice objects constructed in one run
MaxObjs == 4

\* largest number of lines of pci.ids
MaxLines == 3

\* largest number of tables built by load_pci_classes in one run
MaxBuilt == 2

-----------------------------------------------------------------------------
(* Python string primitives *)

Ch(s, i) == SubSeq(s, i, i)

\* s[k:]
Drop(s, k) == IF k >= Len(s) THEN "" ELSE SubSeq(s, k + 1, Len(s))

\* s[:k]
Take(s, k) == IF k >= Len(s) THEN s ELSE SubSeq(s, 1, k)

StartsWith(s, p) == Len(s) >= Len(p) /\ SubSeq(s, 1, Len(p)) = p

HexDigits == "0123456789abcdef"

DecDigits == "0123456789"

HexSet == {Ch(HexDigits, i) : i \in 1..Len(HexDigits)}

DecSet == {Ch(DecDigits, i) : i \in 1..Len(DecDigits)}

\* [0-9a-f]+
AllHex(s) == Len(s) > 0 /\ \A i \in 1..Len(s) : Ch(s, i) \in HexSet

HexVal(c) == CHOOSE v \in 0..15 : Ch(HexDigits, v + 1) = c

\* int(s, 16) for s matching [0-9a-f]+
RECURSIVE ParseHex(_)
ParseHex(s) ==
    IF s = "" THEN 0
    ELSE ParseHex(SubSeq(s, 1, Len(s) - 1)) * 16 + HexVal(Ch(s, Len(s)))

\* int(s) for a decimal digit string
RECURSIVE ParseDec(_)
ParseDec(s) ==
    IF s = "" THEN 0
    ELSE ParseDec(SubSeq(s, 1, Len(s) - 1)) * 10 + HexVal(Ch(s, Len(s)))

RECURSIVE ToHex(_)
ToHex(n) ==
    IF n < 16 THEN Ch(HexDigits, n + 1)
    ELSE ToHex(n \div 16) \o Ch(HexDigits, (n % 16) + 1)

\* the kernel's "%d" for a bus number
RECURSIVE FmtDec(_)
FmtDec(n) ==
    IF n < 10 THEN Ch(DecDigits, n + 1)
    ELSE FmtDec(n \div 10) \o Ch(DecDigits, (n % 10) + 1)

\* f"{n:02x}"
Fmt02x(n) ==
    IF n < 0 THEN "-" \o ToHex(0 - n)
    ELSE IF n < 16 THEN "0" \o ToHex(n)
    ELSE ToHex(n)

\* position of the first occurrence of sep in s at or after i (0: none)
RECURSIVE FindFrom(_, _, _)
FindFrom(s, sep, i) ==
    IF i + Len(sep) - 1 > Len(s) THEN 0
    ELSE IF SubSeq(s, i, i + Len(sep) - 1) = sep THEN i
    ELSE FindFrom(s, sep, i + 1)

\* s.split(sep)
RECURSIVE Split(_, _)
Split(s, sep) ==
    LET p == FindFrom(s, sep, 1)
    IN  IF p = 0 THEN <<s>>
        ELSE <<Take(s, p - 1)>> \o Split(Drop(s, p + Len(sep) - 1), sep)

\* sep.join(list)
RECURSIVE Join(_, _)
Join(list, sep) ==
    IF list = <<>> THEN ""
    ELSE IF Len(list) = 1 THEN list[1]
    ELSE list[1] \o sep \o Join(Tail(list), sep)

\* s.partition(sep): <<before, sep, after>>
Partition(s, sep) ==
    LET p == FindFrom(s, sep, 1)
    IN  IF p = 0 THEN <<s, "", "">>
        ELSE <<Take(s, p - 1), sep, Drop(s, p + Len(sep) - 1)>>

-----------------------------------------------------------------------------
(* The sysfs device tree *)

\* The physical topology: slot of every device and the device above it.
\* parent 0 is a root bus; delta is the distance of the device's bus number
\* from the secondary bus number of the bridge above it.
Topology == <<
    [parent |-> 0, segment |-> "0000", device |-> "03", function |-> "0",
     delta |-> 0, bridge |-> TRUE],
    [parent |-> 1, segment |-> "0000", device |-> "00", function |-> "0",
     delta |-> 0, bridge |-> TRUE],
    [parent |-> 2, segment |-> "0000", device |-> "00", function |-> "0",
     delta |-> 1, bridge |-> FALSE],
    [parent |-> 0, segment |-> "0001", device |-> "1c", function |-> "0",
     delta |-> 0, bridge |-> TRUE],
    [parent |-> 4, segment |-> "0001", device |-> "00", function |-> "0",
     delta |-> 0, bridge |-> FALSE] >>

Nodes == 1..Len(Topology)

Bridges == {n \in Nodes : Topology[n].bridge}

\* nodes the model unplugs and plugs back
Hotplug == {2, 3}

\* bus number of the root bus of every segment
RootBusNum == 0

BusPool == {2} \cup (10..MaxBus)

NodeBus(n) ==
    IF Topology[n].parent = 0 THEN RootBusNum
    ELSE sec[Topology[n].parent] + Topology[n].delta

\* name of the node in /sys/bus/pci/devices: ssss:bb:dd.f
NodeName(n) ==
    Topology[n].segment \o ":" \o Fmt02x(NodeBus(n)) \o ":"
        \o Topology[n].device \o "." \o Topology[n].function

RECURSIVE NodeDevPath(_)
\* path of the node below /sys/devices
NodeDevPath(n) ==
    IF Topology[n].parent = 0
    THEN "pci" \o Topology[n].segment \o ":" \o Fmt02x(RootBusNum)
             \o "/" \o NodeName(n)
    ELSE NodeDevPath(Topology[n].parent) \o "/" \o NodeName(n)

\* os.listdir(f"{SYSFS_BASE}/devices")
ListDevicesDir ==
    {"pci" \o Topology[n].segment \o ":" \o Fmt02x(RootBusNum) : n \in Nodes}
        \cup {"system", "virtual", "platform"}

NotFound == [ok |-> FALSE, val |-> ""]

\* os.readlink(f"{SYSFS_BASE}/bus/pci/devices/{name}")
Readlink(name) ==
    IF \E n \in present : NodeName(n) = name
    THEN [ok |-> TRUE,
          val |-> "../../../devices/"
                    \o NodeDevPath(CHOOSE n \in present : NodeName(n) = name)]
    ELSE NotFound

\* open(f"{SYSFS_BASE}/bus/pci/devices/{name}/secondary_bus_number").read()
ReadSecondaryBusNumber(name) ==
    IF \E n \in present : Topology[n].bridge /\ NodeName(n) = name
    THEN [ok |-> TRUE,
          val |-> FmtDec(sec[CHOOSE n \in present :
                                Topology[n].bridge /\ NodeName(n) = name])]
    ELSE NotFound

\* os.path.exists(f"/sys/bus/pci/devices/{name}")
PathExists(name) == \E n \in present : NodeName(n) = name

\* bus numbers are nested: a bridge below another has a larger secondary bus
\* number, and no two bridges of a segment share one
GoodNumbering(s) ==
    /\ \A b \in Bridges :
         Topology[b].parent # 0 => s[b] > s[Topology[b].parent]
    /\ \A a, b \in Bridges :
         (a # b /\ Topology[a].segment = Topology[b].segment) => s[a] # s[b]

-----------------------------------------------------------------------------
(* qubes/utils.py: the topology codec *)

Ok(v) == [kind |-> "ok", val |-> v]

None == [kind |-> "None", val |-> ""]

ValueError == [kind |-> "ValueError", val |-> ""]

AssertionError == [kind |-> "AssertionError", val |-> ""]

NoMatch ==
    [ok |-> FALSE, segment |-> "", bus |-> "", device |-> "", function |-> ""]

\* (?P<bus>[0-9a-f]{2})[_:](?P<device>[0-9a-f]{2})[._](?P<function>[0-9a-f])\Z
\* on a string of 7 characters; segment "" stands for an unmatched group
MatchBdf(t, segment) ==
    IF /\ Len(t) = 7
       /\ AllHex(SubSeq(t, 1, 2))
       /\ Ch(t, 3) \in {"_", ":"}
       /\ AllHex(SubSeq(t, 4, 5))
       /\ Ch(t, 6) \in {".", "_"}
       /\ AllHex(SubSeq(t, 7, 7))
    THEN [ok |-> TRUE, segment |-> segment, bus |-> SubSeq(t, 1, 2),
          device |-> SubSeq(t, 4, 5), function |-> SubSeq(t, 7, 7)]
    ELSE NoMatch

\* the regex of sbdf_to_path:
\* \A(?:pci_)?((?P<segment>[0-9a-f]{4})[_:])?<bus>[_:]<device>[._]<function>\Z
SbdfRegexMatch(s) ==
    LET t == IF StartsWith(s, "pci_") THEN Drop(s, 4) ELSE s
    IN  IF Len(t) = 12
        THEN IF AllHex(SubSeq(t, 1, 4)) /\ Ch(t, 5) \in {"_", ":"}
             THEN MatchBdf(Drop(t, 5), SubSeq(t, 1, 4))
             ELSE NoMatch
        ELSE MatchBdf(t, "")

\* root_buses of sbdf_to_path: dev[3:] of the entries starting with "pci"
RootBuses == {Drop(d, 3) : d \in {e \in ListDevicesDir : StartsWith(e, "pci")}}

\* bridge_str with the bus of the device written in the device field
BridgeStr_busAsDevice(bus_num, m) ==
    Fmt02x(bus_num) \o "_" \o m.bus \o "." \o m.function

\* bridge_str of one hop
BridgeStr(bus_num, m) ==
    Fmt02x(bus_num) \o "_" \o m.device \o "." \o m.function

\* a bus_offset read as a hexadecimal number
SbdfNextOffset_hex(f) == IF f.ok THEN ParseHex(f.val) ELSE -1

\* a bus_offset that never takes the secondary bus number of the bridge
SbdfNextOffset_ignored(f) == IF f.ok THEN 0 ELSE -1

\* the new bus_offset of sbdf_to_path after a hop: the secondary bus number
\* (decimal) of the device, -1 if it has none
SbdfNextOffset(f) == IF f.ok THEN ParseDec(f.val) ELSE -1

\* the loop of sbdf_to_path over path.split("/")
RECURSIVE SbdfLoop(_, _, _)
SbdfLoop(parts, bus_offset, result_list) ==
    IF parts = <<>> THEN [kind |-> "ok", list |-> result_list]
    ELSE
      LET path_part == Head(parts)
          bridge_match == SbdfRegexMatch(path_part)
      IN  IF bus_offset = -1 THEN [kind |-> "AssertionError", list |-> <<>>]
          ELSE IF ~bridge_match.ok THEN [kind |-> "ValueError", list |-> <<>>]
          ELSE IF ~(ParseHex(bridge_match.bus) >= bus_offset)
               THEN [kind |-> "AssertionError", list |-> <<>>]
          ELSE
            LET bus_num == ParseHex(bridge_match.bus) - bus_offset
            IN  SbdfLoop(Tail(parts),
                         SbdfNextOffset(ReadSecondaryBusNumber(path_part)),
                         Append(result_list, BridgeStr(bus_num, bridge_match)))

\* the segment prefix of a returned path
SegmentPrefix(segment) == IF segment # "0000" THEN segment \o "_" ELSE ""

sbdf_to_path(device_id) ==
    LET dev_match == SbdfRegexMatch(device_id)
        segment == IF dev_match.segment # "" THEN dev_match.segment ELSE "0000"
        sbdf == segment \o ":" \o dev_match.bus \o ":" \o dev_match.device
                    \o "." \o dev_match.function
        link == Readlink(sbdf)
        parted == Partition(link.val, "/pci" \o segment \o ":")
        walk == SbdfLoop(Split(Drop(parted[3], 3), "/"), 0, <<>>)
    IN  IF ~dev_match.ok THEN ValueError
        ELSE IF (segment \o ":" \o dev_match.bus) \in RootBuses
        THEN Ok(SegmentPrefix(segment) \o dev_match.bus \o "_"
                    \o dev_match.device \o "." \o dev_match.function)
        ELSE IF ~link.ok THEN None
        ELSE IF parted[1] # "../../../devices" THEN AssertionError
        ELSE IF walk.kind # "ok" THEN [kind |-> walk.kind, val |-> ""]
        ELSE Ok(SegmentPrefix(segment) \o Join(walk.list, "-"))

\* position of the first character of s that is not a hex digit (Len(s)+1:
\* none)
RECURSIVE HexRun(_, _)
HexRun(s, i) ==
    IF i > Len(s) \/ Ch(s, i) \notin HexSet THEN i ELSE HexRun(s, i + 1)

\* the regex of path_to_sbdf:
\* \A(?P<bus>[0-9a-f]+)[_:](?P<device>[0-9a-f]+)[._](?P<function>[0-9a-f]+)\Z
PartRegexMatch(s) ==
    LET p == HexRun(s, 1)
        q == HexRun(s, p + 1)
    IN  IF /\ p > 1 /\ p < Len(s) /\ Ch(s, p) \in {"_", ":"}
           /\ q > p + 1 /\ q < Len(s) /\ Ch(s, q) \in {".", "_"}
           /\ AllHex(Drop(s, q))
        THEN [ok |-> TRUE, segment |-> "", bus |-> SubSeq(s, 1, p - 1),
              device |-> SubSeq(s, p + 1, q - 1), function |-> Drop(s, q)]
        ELSE NoMatch

\* segment_re of path_to_sbdf: \A(?P<segment>[0-9a-f]{4})[_:](?P<rest>.*)\Z
SegmentReMatch(s) ==
    IF Len(s) >= 5 /\ AllHex(SubSeq(s, 1, 4)) /\ Ch(s, 5) \in {"_", ":"}
    THEN [ok |-> TRUE, segment |-> SubSeq(s, 1, 4), rest |-> Drop(s, 5)]
    ELSE [ok |-> FALSE, segment |-> "", rest |-> ""]

\* current_dev with the bus number written in decimal
CurrentDev_decimal(segment, bus_num, m) ==
    segment \o ":" \o (IF bus_num < 10 THEN "0" ELSE "") \o FmtDec(bus_num)
        \o ":" \o m.device \o "." \o m.function

\* current_dev of one hop
CurrentDev(segment, bus_num, m) ==
    segment \o ":" \o Fmt02x(bus_num) \o ":" \o m.device \o "." \o m.function

\* the secondary bus number read as a hexadecimal number
PathNextOffset_hex(f) == IF f.ok THEN ParseHex(f.val) ELSE -1

\* the new bus_offset with 0 for a device without a secondary bus number
PathNextOffset_zero(f) == IF f.ok THEN ParseDec(f.val) ELSE 0

\* the new bus_offset of path_to_sbdf after a hop: the secondary bus number
\* (decimal) of the device, -1 if it has none
PathNextOffset(f) == IF f.ok THEN ParseDec(f.val) ELSE -1

\* the loop of path_to_sbdf with the assert on bus_offset left out
RECURSIVE PathLoop_noAssert(_, _, _, _)
PathLoop_noAssert(parts, segment, bus_offset, current_dev) ==
    IF parts = <<>> THEN Ok(current_dev)
    ELSE
      LET segment_match == IF bus_offset = 0 THEN SegmentReMatch(Head(parts))
                           ELSE [ok |-> FALSE, segment |-> "", rest |-> ""]
          seg == IF segment_match.ok THEN segment_match.segment ELSE segment
          path_part == IF segment_match.ok THEN segment_match.rest
                       ELSE Head(parts)
          part_match == PartRegexMatch(path_part)
      IN  IF ~part_match.ok THEN ValueError
          ELSE
            LET bus_num == ParseHex(part_match.bus) + bus_offset
                dev == CurrentDev(seg, bus_num, part_match)
            IN  PathLoop_noAssert(Tail(parts), seg,
                         PathNextOffset(ReadSecondaryBusNumber(dev)), dev)

\* the loop of path_to_sbdf over path.split("-")
RECURSIVE PathLoop(_, _, _, _)
PathLoop(parts, segment, bus_offset, current_dev) ==
    IF parts = <<>> THEN Ok(current_dev)
    ELSE IF bus_offset = -1 THEN AssertionError
    ELSE
      LET segment_match == IF bus_offset = 0 THEN SegmentReMatch(Head(parts))
                           ELSE [ok |-> FALSE, segment |-> "", rest |-> ""]
          seg == IF segment_match.ok THEN segment_match.segment ELSE segment
          path_part == IF segment_match.ok THEN segment_match.rest
                       ELSE Head(parts)
          part_match == PartRegexMatch(path_part)
      IN  IF ~part_match.ok THEN ValueError
          ELSE
            LET bus_num == ParseHex(part_match.bus) + bus_offset
                dev == CurrentDev(seg, bus_num, part_match)
            IN  PathLoop(Tail(parts), seg,
                         PathNextOffset(ReadSecondaryBusNumber(dev)), dev)

path_to_sbdf(path) == PathLoop(Split(path, "-"), "0000", 0, "")

-----------------------------------------------------------------------------------------------------------------------------------------------------------------------------------------------------------------------------
(* The record of a handler invocation *)

\* what one invocation did: the calls it issued in order, what it logged,
\* the exception it ended with ("" when it returned) and the call that
\* raised it ("" when the handler itself did)
Returned(calls, log) ==
    [calls |-> calls, log |-> log, exc |-> "", msg |-> "", failed |-> ""]

Raised(calls, log, exc, msg, failed) ==
    [calls |-> calls, log |-> log, exc |-> exc, msg |-> msg,
     failed |-> failed]

IdleInv ==
    [handler |-> "", vm |-> "", dev |-> 0, is_running |-> FALSE,
     exists |-> FALSE, listed |-> FALSE, r |-> Returned(<<>>, <<>>)]

-----
(* The codec at work: identifiers are computed, persisted and resolved while
   the hypervisor renumbers bridges and devices come and go *)

\* drift: nothing happened to the tree, bridges were renumbered (bridge: the
\* one bridge, 0 if several), or a device was unplugged or plugged
Same == [kind |-> "same", bridge |-> 0]

Renumbered(b) == [kind |-> "renumbered", bridge |-> b]

Replugged == [kind |-> "replugged", bridge |-> 0]

NoDrift == [kind |-> "", bridge |-> 0]

\* a call: the function, its argument and what it returned or raised; for
\* sbdf_to_path also the node the argument names and, when the persisted
\* identifier was computed for the same node, that identifier (prev) and
\* the drift since
IdleCall ==
    [fn |-> "", arg |-> "", out |-> None, node |-> 0, prev |-> "",
     since |-> NoDrift]

\* the spellings sbdf_to_path accepts for the address of node n
DeviceIds(n) ==
    LET bdf == Fmt02x(NodeBus(n)) \o "_" \o Topology[n].device \o "."
                   \o Topology[n].function
    IN  {NodeName(n),
         "pci_" \o Topology[n].segment \o "_" \o Fmt02x(NodeBus(n)) \o "_"
             \o Topology[n].device \o "_" \o Topology[n].function}
        \cup (IF Topology[n].segment = "0000" THEN {bdf} ELSE {})

\* identifiers that are no PCI address
BadIds == {"usb_1_2"}

\* the identifiers sbdf_to_path is called with for node n (0: no node)
CallIds(n) == IF n = 0 THEN BadIds ELSE DeviceIds(n)

\* drift after a renumbering, and after a device was unplugged or plugged
AfterRenumber(d, b) ==
    IF port_node = 0 \/ d.kind = "replugged" THEN d
    ELSE IF d.kind = "same" \/ d.bridge = b THEN Renumbered(b)
    ELSE Renumbered(0)

AfterReplug(d) == IF port_node # 0 THEN Replugged ELSE d

InitTopo ==
    /\ sec = [b \in Bridges |-> IF Topology[b].parent = 0 THEN 2 ELSE 10]
    /\ present = Nodes
    /\ port_id = "*"
    /\ port_node = 0
    /\ drift = Same
    /\ call = IdleCall

\* sbdf_to_path(device_id) is called and the caller persists the path it
\* returns as the port identifier
SbdfToPathCall(n, device_id) ==
    LET r == sbdf_to_path(device_id)
        again == n # 0 /\ n = port_node /\ r.kind = "ok"
    IN  /\ call' = [fn |-> "sbdf_to_path", arg |-> device_id, out |-> r,
                    node |-> n,
                    prev |-> IF again THEN port_id ELSE "",
                    since |-> IF again THEN drift ELSE NoDrift]
        /\ IF r.kind = "ok"
           THEN /\ port_id' = r.val
                /\ port_node' = n
                /\ drift' = Same
           ELSE UNCHANGED <<port_id, port_node, drift>>
        /\ UNCHANGED <<sec, present>>
        /\ UNCHANGED pciVars
        /\ UNCHANGED devVars
        /\ UNCHANGED classVars
        /\ UNCHANGED loopVars

\* path_to_sbdf(port_id) is called on the persisted identifier
PathToSbdfCall ==
    /\ call' = [fn |-> "path_to_sbdf", arg |-> port_id,
                out |-> path_to_sbdf(port_id), node |-> port_node,
                prev |-> "", since |-> NoDrift]
    /\ UNCHANGED <<sec, present, port_id, port_node, drift>>
    /\ UNCHANGED pciVars
    /\ UNCHANGED devVars
    /\ UNCHANGED classVars
    /\ UNCHANGED loopVars

RECURSIVE Below(_, _)
\* n is b or lies below b
Below(n, b) ==
    IF n = b THEN TRUE
    ELSE IF Topology[n].parent = 0 THEN FALSE
    ELSE Below(Topology[n].parent, b)

\* the hypervisor gives bridge b the secondary bus number v; the devices
\* below b move with it
Renumber(b, v) ==
    /\ v # sec[b]
    /\ GoodNumbering([sec EXCEPT ![b] = v])
    /\ sec' = [sec EXCEPT ![b] = v]
    /\ call' = IdleCall
    /\ drift' = AfterRenumber(drift, b)
    /\ UNCHANGED <<present, port_id, port_node>>
    /\ UNCHANGED pciVars
    /\ UNCHANGED devVars
    /\ UNCHANGED classVars
    /\ UNCHANGED loopVars

Unplug(n) ==
    /\ n \in present
    /\ present' = {m \in present : ~Below(m, n)}
    /\ call' = IdleCall
    /\ drift' = AfterReplug(drift)
    /\ inv' = IdleInv
    /\ binds' = <<>>
    /\ UNCHANGED <<sec, port_id, port_node>>
    /\ UNCHANGED <<running, bound, attached>>
    /\ UNCHANGED devVars
    /\ UNCHANGED classVars
    /\ UNCHANGED loopVars

Plug(n) ==
    /\ n \notin present
    /\ Topology[n].parent \in present
    /\ present' = present \cup {n}
    /\ call' = IdleCall
    /\ drift' = AfterReplug(drift)
    /\ inv' = IdleInv
    /\ binds' = <<>>
    /\ UNCHANGED <<sec, port_id, port_node>>
    /\ UNCHANGED <<running, bound, attached>>
    /\ UNCHANGED devVars
    /\ UNCHANGED classVars
    /\ UNCHANGED loopVars

TopoNext ==
    \/ \E n \in Nodes \cup {0} : \E id \in CallIds(n) : SbdfToPathCall(n, id)
    \/ PathToSbdfCall
    \/ \E b \in Bridges : \E v \in BusPool : Renumber(b, v)
    \/ \E n \in Hotplug : Unplug(n)
    \/ \E n \in Hotplug : Plug(n)

-----
(* qubes/ext/pci.py: the attach / detach handlers *)

\* s.replace(a, b) for single characters a and b
RECURSIVE Replace(_, _, _)
Replace(s, a, b) ==
    IF s = "" THEN ""
    ELSE (IF Ch(s, 1) = a THEN b ELSE Ch(s, 1)) \o Replace(Drop(s, 1), a, b)

\* the domains: dom0 is the AdminVM, the others are guests
Domains == {"dom0", "work", "sys-net"}

IsAdminVM(vm) == vm = "dom0"

\* vm.virt_mode
VirtMode(vm) == IF vm = "sys-net" THEN "pvh" ELSE "hvm"

\* the PCI devices handed to the handlers, as nodes of the device tree
PciDevices == {1, 3}

\* device.ident: bb_dd.f
Ident(n) ==
    Fmt02x(NodeBus(n)) \o "_" \o Topology[n].device \o "."
        \o Topology[n].function

\* what the calls to libvirt answer in one invocation of
\* device-pre-attach:pci; an answer the handler cannot ask for is "ok"
LookupResults == {"ok", "VIR_ERR_NO_NODE_DEVICE", "VIR_ERR_NO_CONNECT"}

DettachResults == {"ok", "VIR_ERR_INTERNAL_ERROR", "VIR_ERR_OPERATION_FAILED"}

AttachDeviceResults == {"ok", "libvirtError"}

AttachAnswers ==
    {a \in [lookup : LookupResults, dettach : DettachResults,
            attachDevice : AttachDeviceResults] :
        /\ a.lookup # "ok" => a.dettach = "ok"
        /\ a.dettach \notin {"ok", "VIR_ERR_INTERNAL_ERROR"}
             => a.attachDevice = "ok"}

NoAttachAnswer == [lookup |-> "ok", dettach |-> "ok", attachDevice |-> "ok"]

\* what the guest-side helper and the hypervisor answer in one invocation of
\* device-pre-detach:pci
RunServiceResults == {"ok", "CalledProcessError"}

DetachDeviceResults == {"ok", "libvirtError"}

DetachAnswers ==
    {a \in [run_service : RunServiceResults,
            detachDevice : DetachDeviceResults] :
        a.run_service # "ok" => a.detachDevice = "ok"}

NoDetachAnswer == [run_service |-> "ok", detachDevice |-> "ok"]

\* bind_pci_to_pciback that raises every failure of the driver detach
bind_pci_to_pciback_strict(ans) ==
    IF ans.lookup = "VIR_ERR_NO_NODE_DEVICE"
    THEN Raised(<<"nodeDeviceLookupByName">>, <<>>, "QubesException",
                "does not exist", "nodeDeviceLookupByName")
    ELSE IF ans.lookup # "ok"
    THEN Raised(<<"nodeDeviceLookupByName">>, <<>>, "libvirtError",
                ans.lookup, "nodeDeviceLookupByName")
    ELSE IF ans.dettach = "ok"
    THEN Returned(<<"nodeDeviceLookupByName", "dettach">>, <<>>)
    ELSE Raised(<<"nodeDeviceLookupByName", "dettach">>, <<>>, "libvirtError",
                ans.dettach, "dettach")

\* PCIDeviceExtension.bind_pci_to_pciback
bind_pci_to_pciback(ans) ==
    IF ans.lookup = "VIR_ERR_NO_NODE_DEVICE"
    THEN Raised(<<"nodeDeviceLookupByName">>, <<>>, "QubesException",
                "does not exist", "nodeDeviceLookupByName")
    ELSE IF ans.lookup # "ok"
    THEN Raised(<<"nodeDeviceLookupByName">>, <<>>, "libvirtError",
                ans.lookup, "nodeDeviceLookupByName")
    ELSE IF ans.dettach \in {"ok", "VIR_ERR_INTERNAL_ERROR"}
    THEN Returned(<<"nodeDeviceLookupByName", "dettach">>, <<>>)
    ELSE Raised(<<"nodeDeviceLookupByName", "dettach">>, <<>>, "libvirtError",
                ans.dettach, "dettach")

\* what libvirt answers to one call of bind_pci_to_pciback
BindAnswers ==
    {a \in [lookup : LookupResults, dettach : DettachResults] :
        a.lookup # "ok" => a.dettach = "ok"}

NoBindAnswer == [lookup |-> "ok", dettach |-> "ok"]

\* one call of bind_pci_to_pciback as the handlers record it
BindCall(dev, ans) ==
    [dev |-> dev, lookup |-> ans.lookup, dettach |-> ans.dettach,
     r |-> bind_pci_to_pciback(ans)]

\* the outcome of domain-pre-start: the record of the invocation and the
\* bind calls made
PreStartOutcome(r, b) == [r |-> r, binds |-> b]

\* the loop of on_domain_pre_start from assignment number i on
RECURSIVE PreStartLoop(_, _, _, _, _)
PreStartLoop(assigned, answers, i, calls, b) ==
    IF i > Len(assigned) THEN PreStartOutcome(Returned(calls, <<>>), b)
    ELSE LET c == BindCall(assigned[i], answers[i])
             calls2 == calls \o <<"_cache_get">> \o c.r.calls
         IN  IF c.r.exc # ""
             THEN PreStartOutcome(
                      Raised(calls2, <<>>, c.r.exc, c.r.msg, c.r.failed),
                      Append(b, c))
             ELSE PreStartLoop(assigned, answers, i + 1, calls2, Append(b, c))

\* on_domain_pre_start that returns after the first assignment
on_domain_pre_start_firstOnly(assigned, answers) ==
    PreStartLoop(SubSeq(assigned, 1, IF assigned = <<>> THEN 0 ELSE 1),
                 answers, 1, <<>>, <<>>)

\* PCIDeviceExtension.on_domain_pre_start
on_domain_pre_start(assigned, answers) ==
    PreStartLoop(assigned, answers, 1, <<>>, <<>>)

\* the try block with a failed attachDevice requested a second time
PreAttachTry_retry(ans) ==
    LET b == bind_pci_to_pciback(ans)
        calls == <<"_cache_get">> \o b.calls
    IN  IF b.exc # "" THEN Raised(calls, <<>>, b.exc, b.msg, b.failed)
        ELSE IF ans.attachDevice # "ok"
        THEN Raised(calls \o <<"attachDevice", "attachDevice">>, <<>>,
                    ans.attachDevice, "", "attachDevice")
        ELSE Returned(calls \o <<"attachDevice">>, <<>>)

\* the try block with attachDevice requested whatever the bind did
PreAttachTry_attachAnyway(ans) ==
    LET b == bind_pci_to_pciback(ans)
        calls == <<"_cache_get">> \o b.calls \o <<"attachDevice">>
    IN  IF ans.attachDevice # "ok"
        THEN Raised(calls, <<>>, ans.attachDevice, "", "attachDevice")
        ELSE IF b.exc # "" THEN Raised(calls, <<>>, b.exc, b.msg, b.failed)
        ELSE Returned(calls, <<>>)

\* the try block of on_device_pre_attached_pci
PreAttachTry(ans) ==
    LET b == bind_pci_to_pciback(ans)
        calls == <<"_cache_get">> \o b.calls
    IN  IF b.exc # "" THEN Raised(calls, <<>>, b.exc, b.msg, b.failed)
        ELSE IF ans.attachDevice # "ok"
        THEN Raised(calls \o <<"attachDevice">>, <<>>, ans.attachDevice, "",
                    "attachDevice")
        ELSE Returned(calls \o <<"attachDevice">>, <<>>)

\* the exception classes the except clause of on_device_pre_attached_pci
\* catches
PreAttachCaught == {"CalledProcessError"}

\* try ... except of on_device_pre_attached_pci: a caught exception is
\* logged and the handler returns
PreAttachLive(ans) ==
    LET t == PreAttachTry(ans)
    IN  IF t.exc \in PreAttachCaught
        THEN [t EXCEPT !.log = <<"Failed to attach PCI device on the fly">>,
                       !.exc = ""]
        ELSE t

\* the checks of on_device_pre_attached_pci, in their order; "" when all pass
PreAttachRefusal(exists, vm) ==
    IF ~exists THEN "Invalid PCI device"
    ELSE IF IsAdminVM(vm) THEN "Can't attach PCI device to dom0"
    ELSE IF VirtMode(vm) = "pvh" THEN "Can't attach PCI device to VM in pvh mode"
    ELSE ""

\* the handler with the virt_mode check made after the live attach
on_device_pre_attached_pci_lateCheck(exists, vm, is_running, ans) ==
    LET live == IF is_running THEN PreAttachLive(ans) ELSE Returned(<<>>, <<>>)
    IN  IF ~exists
        THEN Raised(<<>>, <<>>, "QubesException", "Invalid PCI device", "")
        ELSE IF IsAdminVM(vm)
        THEN Raised(<<>>, <<>>, "QubesException",
                    "Can't attach PCI device to dom0", "")
        ELSE IF live.exc # "" THEN live
        ELSE IF VirtMode(vm) = "pvh"
        THEN Raised(live.calls, live.log, "QubesException",
                    "Can't attach PCI device to VM in pvh mode", "")
        ELSE live

\* the handler without its vm.is_running() check
on_device_pre_attached_pci_noRunningCheck(exists, vm, is_running, ans) ==
    IF PreAttachRefusal(exists, vm) # ""
    THEN Raised(<<>>, <<>>, "QubesException", PreAttachRefusal(exists, vm), "")
    ELSE PreAttachLive(ans)

\* PCIDeviceExtension.on_device_pre_attached_pci
on_device_pre_attached_pci(exists, vm, is_running, ans) ==
    IF PreAttachRefusal(exists, vm) # ""
    THEN Raised(<<>>, <<>>, "QubesException", PreAttachRefusal(exists, vm), "")
    ELSE IF ~is_running THEN Returned(<<>>, <<>>)
    ELSE PreAttachLive(ans)

\* the except clause without its raise
PreDetachExcept_swallow(t) ==
    [t EXCEPT !.log = <<"Failed to detach PCI device on the fly">>, !.exc = ""]

\* the except clause of on_device_pre_detached_pci: log, then raise again
PreDetachExcept(t) ==
    [t EXCEPT !.log = <<"Failed to detach PCI device on the fly">>]

\* the exception classes the except clause of on_device_pre_detached_pci
\* catches
PreDetachCaught == {"CalledProcessError", "libvirtError"}

\* the try block with detachDevice requested before the guest-side helper
PreDetachTry_detachFirst(calls, ans) ==
    IF ans.detachDevice # "ok"
    THEN Raised(calls \o <<"detachDevice">>, <<>>, ans.detachDevice, "",
                "detachDevice")
    ELSE IF ans.run_service # "ok"
    THEN Raised(calls \o <<"detachDevice", "qubes.DetachPciDevice">>, <<>>,
                ans.run_service, "", "qubes.DetachPciDevice")
    ELSE Returned(calls \o <<"detachDevice", "qubes.DetachPciDevice">>, <<>>)

\* the try block of on_device_pre_detached_pci
PreDetachTry(calls, ans) ==
    IF ans.run_service # "ok"
    THEN Raised(calls \o <<"qubes.DetachPciDevice">>, <<>>, ans.run_service,
                "", "qubes.DetachPciDevice")
    ELSE IF ans.detachDevice # "ok"
    THEN Raised(calls \o <<"qubes.DetachPciDevice", "detachDevice">>, <<>>,
                ans.detachDevice, "", "detachDevice")
    ELSE Returned(calls \o <<"qubes.DetachPciDevice", "detachDevice">>, <<>>)

\* on_device_pre_detached_pci going on when xl pci-list does not show the
\* device
PreDetachLive_noListCheck(listed, ans) ==
    LET calls == <<"_cache_get", "xl pci-list">>
        t == PreDetachTry(calls, ans)
    IN  IF t.exc \in PreDetachCaught THEN PreDetachExcept(t) ELSE t

\* on_device_pre_detached_pci once the guest is known to run; listed tells
\* whether xl pci-list shows the host address of the device
PreDetachLive(listed, ans) ==
    LET calls == <<"_cache_get", "xl pci-list">>
        t == PreDetachTry(calls, ans)
    IN  IF ~listed THEN Returned(calls, <<"Device already detached">>)
        ELSE IF t.exc \in PreDetachCaught THEN PreDetachExcept(t)
        ELSE t

\* PCIDeviceExtension.on_device_pre_detached_pci
on_device_pre_detached_pci(is_running, listed, ans) ==
    IF ~is_running THEN Returned(<<>>, <<>>)
    ELSE PreDetachLive(listed, ans)

RECURSIVE Contains(_, _)
Contains(seq, x) ==
    IF seq = <<>> THEN FALSE
    ELSE IF Head(seq) = x THEN TRUE ELSE Contains(Tail(seq), x)

\* position of the first x in seq (0: none)
RECURSIVE IndexOf(_, _)
IndexOf(seq, x) ==
    IF seq = <<>> THEN 0
    ELSE IF Head(seq) = x THEN 1
    ELSE IF IndexOf(Tail(seq), x) = 0 THEN 0
    ELSE IndexOf(Tail(seq), x) + 1

\* os.path.exists('/sys/bus/pci/devices/0000:{}'.format(
\*     device.ident.replace('_', ':')))
DeviceExists(ident) == PathExists("0000:" \o Replace(ident, "_", ":"))

-----------------------------------------------------------------------------
(* qubes/ext/pci.py: PCIDevice objects and the cache of _cache_get *)

\* Python values of the lazily loaded attributes: None, a str, or a list of
\* str (what lxml's xpath() returns)
PyNone == [t |-> "None", v |-> <<>>]

PyStr(x) == [t |-> "str", v |-> <<x>>]

PyList(l) == [t |-> "list", v |-> l]

\* format(value) as an f-string does it: a str as it is, a list by its repr
RECURSIVE ReprItems(_)
ReprItems(l) ==
    IF l = <<>> THEN ""
    ELSE "'" \o Head(l) \o "'"
           \o (IF Tail(l) = <<>> THEN "" ELSE ", " \o ReprItems(Tail(l)))

Format(value) ==
    IF value.t = "str" THEN value.v[1]
    ELSE IF value.t = "list" THEN "[" \o ReprItems(value.v) \o "]"
    ELSE "None"

\* the items a for loop over the value yields: the characters of a str, the
\* elements of a list
RECURSIVE Chars(_)
Chars(x) == IF x = "" THEN <<>> ELSE <<Ch(x, 1)>> \o Chars(Drop(x, 1))

Items(value) == IF value.t = "str" THEN Chars(value.v[1]) ELSE value.v

\* allowed_chars = string.digits + string.ascii_letters + '-_.'
allowed_chars ==
    "0123456789abcdefghijklmnopqrstuvwxyzABCDEFGHIJKLMNOPQRSTUVWXYZ-_."

\* ''.join(c if c in set(allowed_chars) else '_' for c in items)
RECURSIVE JoinAllowed(_)
JoinAllowed(items) ==
    IF items = <<>> THEN ""
    ELSE (IF Len(Head(items)) = 1 /\ FindFrom(allowed_chars, Head(items), 1) # 0
          THEN Head(items) ELSE "_")
           \o JoinAllowed(Tail(items))

\* every character of x is one of allowed_chars
RECURSIVE OnlyAllowed(_)
OnlyAllowed(x) ==
    IF x = "" THEN TRUE
    ELSE FindFrom(allowed_chars, Ch(x, 1), 1) # 0 /\ OnlyAllowed(Drop(x, 1))

\* PCIDevice.regex: \A(?P<bus>[0-9a-f]+)_(?P<device>[0-9a-f]+)\.
\* (?P<function>[0-9a-f]+)\Z
IdentRegexMatch(ident) ==
    LET p == HexRun(ident, 1)
        q == HexRun(ident, p + 1)
    IN  /\ p > 1 /\ p < Len(ident) /\ Ch(ident, p) = "_"
        /\ q > p + 1 /\ q < Len(ident) /\ Ch(ident, q) = "."
        /\ AllHex(Drop(ident, q))

\* the groups bus, device and function of PCIDevice.regex on an ident that
\* matches it
IdentGroups(ident) ==
    LET p == HexRun(ident, 1)
        q == HexRun(ident, p + 1)
    IN  [bus |-> SubSeq(ident, 1, p - 1), device |-> SubSeq(ident, p + 1, q - 1),
         function |-> Drop(ident, q)]

\* the attributes DeviceInfo.__init__ starts a device with
DeviceInfoInit ==
    [vendor |-> PyNone, product |-> PyNone, interfaces |-> PyNone,
     serial |-> PyNone]

\* PCIDevice(backend_domain, ident): the object after __init__; made tells
\* which code constructed it
PCIDevice(backend_domain, ident, made) ==
    [backend_domain |-> backend_domain, ident |-> ident, made |-> made,
     bus |-> IdentGroups(ident).bus, device |-> IdentGroups(ident).device,
     function |-> IdentGroups(ident).function,
     vendor |-> DeviceInfoInit.vendor, product |-> DeviceInfoInit.product,
     interfaces |-> DeviceInfoInit.interfaces,
     serial |-> DeviceInfoInit.serial,
     vendor_id |-> PyNone, product_id |-> PyNone]

\* the outcome of a lookup: the object id (0 if it raised), the exception,
\* and the heap and cache after it
Lookup(obj, exc, h, c) == [obj |-> obj, exc |-> exc, heap |-> h, cache |-> c]

\* _cache_get with a cache that keeps nothing
_cache_get_uncached(h, c, vm, ident) ==
    IF ~IdentRegexMatch(ident) THEN Lookup(0, "ValueError", h, c)
    ELSE Lookup(Len(h) + 1, "",
                Append(h, PCIDevice(vm, ident, "_cache_get")), c)

\* _cache_get(vm, ident) under functools.lru_cache(maxsize=None): a hit
\* returns the cached object, a miss constructs one and keeps it unless the
\* constructor raised
_cache_get(h, c, vm, ident) ==
    IF \E e \in c : e.vm = vm /\ e.ident = ident
    THEN Lookup((CHOOSE e \in c : e.vm = vm /\ e.ident = ident).obj, "", h, c)
    ELSE IF ~IdentRegexMatch(ident) THEN Lookup(0, "ValueError", h, c)
    ELSE Lookup(Len(h) + 1, "",
                Append(h, PCIDevice(vm, ident, "_cache_get")),
                c \cup {[vm |-> vm, ident |-> ident, obj |-> Len(h) + 1]})

\* on_app_close that leaves the cache as it is
on_app_close_keep(c) == c

\* PCIDeviceExtension.on_app_close: _cache_get.cache_clear()
on_app_close(c) == {}

\* what libvirt's XMLDesc() reports for the device: capability/vendor,
\* //vendor/@id, capability/product, //product/@id
HwDesc(ident) ==
    [vendor |-> PyStr("Intel Corporation"), vendor_id |-> PyList(<<"0x8086">>),
     product |-> PyStr("82574L Gigabit Network Connection"),
     product_id |-> PyList(<<"0x10d3">>)]

\* the defaults of _load_desc
UnknownDesc ==
    [vendor |-> PyStr("unknown"), vendor_id |-> PyStr("0000"),
     product |-> PyStr("unknown"), product_id |-> PyStr("0000")]

\* what nodeDeviceLookupByName answers to a property of a PCIDevice
DescLookups == {"ok", "VIR_ERR_NO_NODE_DEVICE"}

\* what reading <sysfs_path>/class gives: the content of the file, or OSError
ClassReads == {"0x020000\n", "OSError"}

\* the outcome of a property or method of object o: the object after it, the
\* value returned, the exception raised, the number of libvirt queries made
Got(o, out, queries) == [o |-> o, out |-> out, exc |-> "", queries |-> queries]

Failed(o, exc, queries) ==
    [o |-> o, out |-> PyNone, exc |-> exc, queries |-> queries]

\* PCIDevice._load_desc
_load_desc(o, is_running, lookup) ==
    IF ~is_running THEN Got(o, UnknownDesc, 0)
    ELSE IF lookup # "ok" THEN Failed(o, "libvirtError", 1)
    ELSE Got([o EXCEPT !.vendor = HwDesc(o.ident).vendor,
                       !.vendor_id = HwDesc(o.ident).vendor_id,
                       !.product = HwDesc(o.ident).product,
                       !.product_id = HwDesc(o.ident).product_id],
             HwDesc(o.ident), 1)

\* PCIDevice.vendor
vendor(o, is_running, lookup) ==
    IF o.vendor = PyNone
    THEN LET d == _load_desc(o, is_running, lookup)
         IN  IF d.exc # "" THEN d ELSE Got(d.o, d.out.vendor, d.queries)
    ELSE Got(o, o.vendor, 0)

\* PCIDevice.product
product(o, is_running, lookup) ==
    IF o.product = PyNone
    THEN LET d == _load_desc(o, is_running, lookup)
         IN  IF d.exc # "" THEN d ELSE Got(d.o, d.out.product, d.queries)
    ELSE Got(o, o.product, 0)

\* str.strip() of the content of a sysfs file
RECURSIVE Strip(_)
Strip(x) ==
    IF x # "" /\ Ch(x, Len(x)) \in {"\n", " "} THEN Strip(Take(x, Len(x) - 1))
    ELSE IF x # "" /\ Ch(x, 1) \in {"\n", " "} THEN Strip(Drop(x, 1))
    ELSE x

\* pcidev_interface
pcidev_interface(class_read) ==
    IF class_read = "OSError" THEN "000000"
    ELSE IF StartsWith(Strip(class_read), "0x") THEN Drop(Strip(class_read), 2)
    ELSE Strip(class_read)

\* PCIDevice.interfaces; the list of DeviceInterface objects is modelled by
\* the list of their encodings
interfaces(o, lookup, class_read) ==
    IF o.interfaces = PyNone
    THEN IF lookup # "ok" THEN Failed(o, "libvirtError", 1)
         ELSE Got([o EXCEPT !.interfaces =
                                PyList(<<pcidev_interface(class_read)>>)],
                  PyList(<<pcidev_interface(class_read)>>), 1)
    ELSE Got(o, o.interfaces, 0)

\* the first half of self_identity: _vendor_id, then _product_id
SelfIdentityIds(o, is_running, lookup) ==
    LET d1 == _load_desc(o, is_running, lookup)
        r1 == IF o.vendor_id # PyNone THEN Got(o, PyNone, 0)
              ELSE IF d1.exc # "" THEN d1
              ELSE Got([d1.o EXCEPT !.vendor_id =
                           PyStr(JoinAllowed(Items(d1.out.vendor_id)))],
                       PyNone, d1.queries)
        d2 == _load_desc(r1.o, is_running, lookup)
    IN  IF r1.exc # "" THEN r1
        ELSE IF r1.o.product_id # PyNone THEN r1
        ELSE IF d2.exc # "" THEN Failed(d2.o, d2.exc, r1.queries + d2.queries)
        ELSE Got([d2.o EXCEPT !.product_id =
                     PyStr(JoinAllowed(Items(d2.out.product_id)))],
                 PyNone, r1.queries + d2.queries)

\* PCIDevice.self_identity; the value is the formatted string and, next to
\* it, its vendor-ID and product-ID fields
self_identity(o, is_running, lookup, class_read) ==
    LET ids == SelfIdentityIds(o, is_running, lookup)
        ifc == interfaces(ids.o, lookup, class_read)
        serial == IF ifc.o.serial # PyNone THEN Format(ifc.o.serial) ELSE ""
    IN  IF ids.exc # "" THEN ids
        ELSE IF ifc.exc # ""
        THEN Failed(ifc.o, ifc.exc, ids.queries + ifc.queries)
        ELSE Got(ifc.o,
                 [t |-> "self_identity",
                  v |-> <<Format(ifc.o.vendor_id) \o ":"
                            \o Format(ifc.o.product_id) \o ":" \o serial
                            \o ":" \o Join(ifc.out.v, "")>>,
                  vendor_id |-> Format(ifc.o.vendor_id),
                  product_id |-> Format(ifc.o.product_id)],
                 ids.queries + ifc.queries)

\* the name of a guest the backend store still has a record for although it
\* is not in app.domains
StaleDomain == "disp-old"

\* the guests the backend store can name as the owner of a device
Owners == {vm \in Domains : ~IsAdminVM(vm)} \cup {StaleDomain}

\* xenstore below backend/pci: one record per owning guest that holds a
\* device, with its /domain and its dev-0 .. dev-(num_devs - 1), in the order
\* xs.ls lists them
XsOrder == <<StaleDomain, "work", "sys-net">>

RECURSIVE DevsOf(_, _)
DevsOf(owner, devs) ==
    IF devs = {} THEN <<>>
    ELSE LET d == CHOOSE x \in devs : \A y \in devs : x <= y
         IN  (IF attached[d] = owner THEN <<NodeName(d)>> ELSE <<>>)
               \o DevsOf(owner, devs \ {d})

RECURSIVE XsRecordsFrom(_)
XsRecordsFrom(i) ==
    IF i > Len(XsOrder) THEN <<>>
    ELSE (IF DevsOf(XsOrder[i], PciDevices) = <<>> THEN <<>>
          ELSE <<[domain |-> XsOrder[i],
                  devs |-> DevsOf(XsOrder[i], PciDevices)]>>)
           \o XsRecordsFrom(i + 1)

XsRecords == XsRecordsFrom(1)

\* devices[key] = value on a dict kept as a set of entries
DictSet(devices, key, value) ==
    {e \in devices : e.ident # key} \cup {[ident |-> key, domain |-> value]}

\* the loop over range(int(devnum)) with the address kept as the key
RECURSIVE AttachedDevs_keepColons(_, _, _)
AttachedDevs_keepColons(devices, domain, dbdfs) ==
    IF dbdfs = <<>> THEN devices
    ELSE AttachedDevs_keepColons(
             DictSet(devices, Drop(Head(dbdfs), Len("0000:")), domain),
             domain, Tail(dbdfs))

\* the loop over range(int(devnum)) of attached_devices
RECURSIVE AttachedDevs(_, _, _)
AttachedDevs(devices, domain, dbdfs) ==
    IF dbdfs = <<>> THEN devices
    ELSE AttachedDevs(
             DictSet(devices,
                     Replace(Drop(Head(dbdfs), Len("0000:")), ":", "_"),
                     domain),
             domain, Tail(dbdfs))

\* attached_devices that stops at the first record of an unknown owner
RECURSIVE attached_devices_stop(_, _)
attached_devices_stop(records, devices) ==
    IF records = <<>> THEN devices
    ELSE IF Head(records).domain \notin Domains THEN devices
    ELSE attached_devices_stop(
             Tail(records),
             AttachedDevs(devices, Head(records).domain, Head(records).devs))

\* attached_devices: the loop over the records of the backend store
RECURSIVE attached_devices(_, _)
attached_devices(records, devices) ==
    IF records = <<>> THEN devices
    ELSE IF Head(records).domain \notin Domains
    THEN attached_devices(Tail(records), devices)
    ELSE attached_devices(
             Tail(records),
             AttachedDevs(devices, Head(records).domain, Head(records).devs))

\* PCIDevice.frontend_domain: all_attached.get(self.ident, None)
frontend_domain(o, records) ==
    LET all_attached == attached_devices(records, {})
    IN  IF \E e \in all_attached : e.ident = o.ident
        THEN PyStr((CHOOSE e \in all_attached : e.ident = o.ident).domain)
        ELSE PyNone

\* the record of a lookup or of a property access: the handler or property
\* (op), the object it worked on, whether the backend domain of the object
\* was running, the value and the exception, the number of libvirt queries,
\* the objects yielded, and for frontend_domain the value its last call on
\* the same object returned
Never == [t |-> "never", v |-> <<>>]

IdleAcc ==
    [op |-> "", vm |-> "", obj |-> 0, is_running |-> FALSE, out |-> PyNone,
     exc |-> "", queries |-> 0, objs |-> <<>>, before |-> Never]

InitPci ==
    /\ running = [vm \in Domains |-> IsAdminVM(vm)]
    /\ bound = {}
    /\ attached = [d \in PciDevices |-> "none"]
    /\ inv = IdleInv
    /\ binds = <<>>

InitDev ==
    /\ heap = <<>>
    /\ cache = {}
    /\ cleared = 0
    /\ warned = {}
    /\ acc = IdleAcc

\* device.backend_domain of the devices the events are fired for
BackendDomain == "dom0"

\* a bind call together with whether the device was bound before it
WithBound(c) ==
    [dev |-> c.dev, was_bound |-> c.dev \in bound, lookup |-> c.lookup,
     dettach |-> c.dettach, r |-> c.r]

\* the event device-pre-attach:pci is fired for guest vm and device dev
PreAttach(vm, dev, ans) ==
    LET exists == DeviceExists(Ident(dev))
        r == on_device_pre_attached_pci(exists, vm, running[vm], ans)
        l == IF Contains(r.calls, "_cache_get")
             THEN _cache_get(heap, cache, BackendDomain, Ident(dev))
             ELSE Lookup(0, "", heap, cache)
    IN  /\ (PreAttachRefusal(exists, vm) # "" \/ ~running[vm])
              => ans = NoAttachAnswer
        /\ Len(l.heap) <= MaxObjs
        /\ inv' = [handler |-> "device-pre-attach:pci", vm |-> vm, dev |-> dev,
                   is_running |-> running[vm], exists |-> exists,
                   listed |-> attached[dev] = vm, r |-> r]
        /\ binds' = IF Contains(r.calls, "nodeDeviceLookupByName")
                    THEN <<WithBound(BindCall(dev, ans))>> ELSE <<>>
        /\ bound' = IF Contains(r.calls, "dettach") /\ ans.dettach = "ok"
                    THEN bound \cup {dev} ELSE bound
        /\ attached' = IF Contains(r.calls, "attachDevice")
                          /\ ans.attachDevice = "ok"
                       THEN [attached EXCEPT ![dev] = vm] ELSE attached
        /\ heap' = l.heap
        /\ cache' = l.cache
        /\ acc' = IdleAcc
        /\ UNCHANGED <<running, cleared, warned>>
        /\ UNCHANGED topoVars
        /\ UNCHANGED classVars
        /\ UNCHANGED loopVars

\* the event device-pre-detach:pci is fired for guest vm and device dev
PreDetach(vm, dev, ans) ==
    LET listed == attached[dev] = vm
        r == on_device_pre_detached_pci(running[vm], listed, ans)
        l == IF Contains(r.calls, "_cache_get")
             THEN _cache_get(heap, cache, BackendDomain, Ident(dev))
             ELSE Lookup(0, "", heap, cache)
    IN  /\ (~running[vm] \/ ~listed) => ans = NoDetachAnswer
        /\ Len(l.heap) <= MaxObjs
        /\ inv' = [handler |-> "device-pre-detach:pci", vm |-> vm, dev |-> dev,
                   is_running |-> running[vm],
                   exists |-> DeviceExists(Ident(dev)),
                   listed |-> listed, r |-> r]
        /\ binds' = <<>>
        /\ attached' = IF Contains(r.calls, "detachDevice")
                          /\ ans.detachDevice = "ok"
                       THEN [attached EXCEPT ![dev] = "none"] ELSE attached
        /\ heap' = l.heap
        /\ cache' = l.cache
        /\ acc' = IdleAcc
        /\ UNCHANGED <<running, bound, cleared, warned>>
        /\ UNCHANGED topoVars
        /\ UNCHANGED classVars
        /\ UNCHANGED loopVars

\* vm.devices['pci'].get_assigned_devices(): the devices persistently
\* assigned to the guest
AssignedDevices(vm) ==
    IF vm = "work" THEN <<1, 3>> ELSE IF vm = "sys-net" THEN <<3>> ELSE <<>>

\* the answers libvirt can give to the bind calls of one domain-pre-start: no
\* call is made after the first one that raises
PreStartAnswers(assigned) ==
    {a \in [1..Len(assigned) -> BindAnswers] :
        \A i, k \in 1..Len(assigned) :
            (i < k /\ bind_pci_to_pciback(a[i]).exc # "") => a[k] = NoBindAnswer}

\* _cache_get for the first n of the assigned devices, one after the other
RECURSIVE CacheGetEach(_, _, _, _)
CacheGetEach(h, c, devs, n) ==
    IF n = 0 \/ devs = <<>> THEN Lookup(0, "", h, c)
    ELSE LET l == _cache_get(h, c, BackendDomain, Ident(Head(devs)))
         IN  CacheGetEach(l.heap, l.cache, Tail(devs), n - 1)

\* the event domain-pre-start is fired for guest vm
PreStart(vm, answers) ==
    LET x == on_domain_pre_start(AssignedDevices(vm), answers)
        l == CacheGetEach(heap, cache, AssignedDevices(vm), Len(x.binds))
    IN  /\ ~IsAdminVM(vm)
        /\ ~running[vm]
        /\ Len(l.heap) <= MaxObjs
        /\ inv' = [handler |-> "domain-pre-start", vm |-> vm, dev |-> 0,
                   is_running |-> running[vm], exists |-> FALSE,
                   listed |-> FALSE, r |-> x.r]
        /\ binds' = [i \in DOMAIN x.binds |-> WithBound(x.binds[i])]
        /\ bound' = bound \cup {x.binds[i].dev : i \in
                        {k \in DOMAIN x.binds :
                            /\ Contains(x.binds[k].r.calls, "dettach")
                            /\ x.binds[k].dettach = "ok"}}
        /\ heap' = l.heap
        /\ cache' = l.cache
        /\ acc' = IdleAcc
        /\ UNCHANGED <<running, attached, cleared, warned>>
        /\ UNCHANGED topoVars
        /\ UNCHANGED classVars
        /\ UNCHANGED loopVars

\* a guest is started
GuestStart(vm) ==
    /\ ~IsAdminVM(vm)
    /\ ~running[vm]
    /\ running' = [running EXCEPT ![vm] = TRUE]
    /\ inv' = IdleInv
    /\ binds' = <<>>
    /\ UNCHANGED <<bound, attached>>
    /\ UNCHANGED devVars
    /\ UNCHANGED topoVars
    /\ UNCHANGED classVars
    /\ UNCHANGED loopVars

\* a guest stops: the hypervisor takes its devices back
GuestStop(vm) ==
    /\ ~IsAdminVM(vm)
    /\ running[vm]
    /\ running' = [running EXCEPT ![vm] = FALSE]
    /\ attached' = [d \in PciDevices |->
                      IF attached[d] = vm THEN "none" ELSE attached[d]]
    /\ inv' = IdleInv
    /\ binds' = <<>>
    /\ acc' = IdleAcc
    /\ UNCHANGED bound
    /\ UNCHANGED <<heap, cache, cleared, warned>>
    /\ UNCHANGED topoVars
    /\ UNCHANGED classVars
    /\ UNCHANGED loopVars

PciNext ==
    \/ \E vm \in Domains : \E dev \in PciDevices : \E ans \in AttachAnswers :
         PreAttach(vm, dev, ans)
    \/ \E vm \in Domains : \E dev \in PciDevices : \E ans \in DetachAnswers :
         PreDetach(vm, dev, ans)
    \/ \E vm \in Domains : \E answers \in PreStartAnswers(AssignedDevices(vm)) :
         PreStart(vm, answers)
    \/ \E vm \in Domains : GuestStart(vm)
    \/ \E vm \in Domains : GuestStop(vm)
    \/ \E n \in Hotplug : Unplug(n)
    \/ \E n \in Hotplug : Plug(n)

-----------------------------------------------------------------------------
(* The events and property accesses that construct and use PCIDevice objects *)

\* marks in the record of a lookup: the object was constructed by it; the
\* cache clear before it dropped an object with loaded metadata
Constructed == PyStr("constructed")

DroppedLoaded == PyStr("dropped an object with metadata")

\* the object has none of the lazily loaded values
NoMetadata(o) ==
    /\ o.vendor = PyNone /\ o.product = PyNone /\ o.interfaces = PyNone
    /\ o.vendor_id = PyNone /\ o.product_id = PyNone

\* the identifiers device-get:pci is fired with
GetIdents == {Ident(1), "usb_1_2"}

\* the domains that are the backend domain of a looked-up device
GetDomains == {"dom0", "work"}

\* the event device-get:pci is fired on domain vm for ident
DeviceGet(vm, ident, offline_mode) ==
    LET l == _cache_get(heap, cache, vm, ident)
    IN  /\ Len(l.heap) <= MaxObjs
        /\ heap' = IF offline_mode THEN heap ELSE l.heap
        /\ cache' = IF offline_mode THEN cache ELSE l.cache
        /\ acc' = IF offline_mode
                  THEN [IdleAcc EXCEPT !.op = "device-get:pci"]
                  ELSE [IdleAcc EXCEPT
                           !.op = "device-get:pci", !.obj = l.obj,
                           !.exc = l.exc,
                           !.out = IF l.heap # heap THEN Constructed
                                   ELSE PyNone,
                           !.before = IF acc.op = "qubes-close"
                                      THEN acc.before ELSE Never,
                           !.objs = IF l.exc = "" THEN <<l.obj>> ELSE <<>>]
        /\ inv' = IdleInv
        /\ binds' = <<>>
        /\ UNCHANGED <<running, bound, attached, cleared, warned>>
        /\ UNCHANGED topoVars
        /\ UNCHANGED classVars
        /\ UNCHANGED loopVars

\* what is left of an object nothing refers to any more
Collected == PCIDevice("", "", "collected")

\* the event qubes-close, fired when the application object is closed: the
\* objects that neither the cache nor a caller holds any longer are freed
AppClose ==
    /\ cache' = on_app_close(cache)
    /\ heap' = [i \in DOMAIN heap |->
                  IF \E e \in on_app_close(cache) : e.obj = i THEN heap[i]
                  ELSE Collected]
    /\ cleared' = Len(heap)
    /\ acc' = [IdleAcc EXCEPT
                  !.op = "qubes-close",
                  !.before = IF \E e \in cache : ~NoMetadata(heap[e.obj])
                             THEN DroppedLoaded ELSE Never]
    /\ inv' = IdleInv
    /\ binds' = <<>>
    /\ UNCHANGED <<running, bound, attached, warned>>
    /\ UNCHANGED topoVars
    /\ UNCHANGED classVars
    /\ UNCHANGED loopVars

\* PCIDevice._libvirt_regex with any four hex digits for the segment
LibvirtRegexMatch_anySegment(libvirt_name) ==
    LET t == Drop(libvirt_name, Len("pci_0000_"))
        p == HexRun(t, 1)
        q == HexRun(t, p + 1)
    IN  IF /\ StartsWith(libvirt_name, "pci_")
           /\ Len(libvirt_name) > Len("pci_0000_")
           /\ AllHex(SubSeq(libvirt_name, 5, 8)) /\ Ch(libvirt_name, 9) = "_"
           /\ p > 1 /\ p < Len(t) /\ Ch(t, p) = "_"
           /\ q > p + 1 /\ q < Len(t) /\ Ch(t, q) = "_"
           /\ AllHex(Drop(t, q))
        THEN [ok |-> TRUE,
              ident |-> SubSeq(t, 1, p - 1) \o "_" \o SubSeq(t, p + 1, q - 1)
                            \o "." \o Drop(t, q)]
        ELSE [ok |-> FALSE, ident |-> ""]

\* PCIDevice._libvirt_regex:
\* \Apci_0000_(?P<bus>[0-9a-f]+)_(?P<device>[0-9a-f]+)_(?P<function>[0-9a-f]+)\Z
\* and the ident made of its groups; ok is FALSE when the name does not match
LibvirtRegexMatch(libvirt_name) ==
    LET t == Drop(libvirt_name, Len("pci_0000_"))
        p == HexRun(t, 1)
        q == HexRun(t, p + 1)
    IN  IF /\ StartsWith(libvirt_name, "pci_0000_")
           /\ p > 1 /\ p < Len(t) /\ Ch(t, p) = "_"
           /\ q > p + 1 /\ q < Len(t) /\ Ch(t, q) = "_"
           /\ AllHex(Drop(t, q))
        THEN [ok |-> TRUE,
              ident |-> SubSeq(t, 1, p - 1) \o "_" \o SubSeq(t, p + 1, q - 1)
                            \o "." \o Drop(t, q)]
        ELSE [ok |-> FALSE, ident |-> ""]

\* the name libvirt gives the node device of a PCI device
LibvirtName(n) ==
    "pci_" \o Topology[n].segment \o "_" \o Fmt02x(NodeBus(n)) \o "_"
        \o Topology[n].device \o "_" \o Topology[n].function

\* the nodes libvirt lists next to the PCI devices handed to the handlers
ListedNodes == PciDevices \cup {4}

\* libvirt_conn.listAllDevices(): the name of each device and whether 'pci'
\* is among its capabilities
RECURSIVE PciNodeDevices(_)
PciNodeDevices(nodes) ==
    IF nodes = {} THEN <<>>
    ELSE LET n == CHOOSE x \in nodes : \A y \in nodes : x <= y
         IN  <<[name |-> LibvirtName(n), pci |-> TRUE]>>
               \o PciNodeDevices(nodes \ {n})

listAllDevices ==
    <<[name |-> "computer", pci |-> FALSE]>>
        \o PciNodeDevices(ListedNodes \cap present)

\* the loop of on_device_list_pci with a warning for every unsupported name
\* it meets, warned before or not
RECURSIVE DeviceListLoop_warnAlways(_, _, _, _, _, _)
DeviceListLoop_warnAlways(vm, devs, h, objs, log, w) ==
    IF devs = <<>>
    THEN [heap |-> h, objs |-> objs, log |-> log, warned |-> w, queries |-> 0]
    ELSE LET dev == Head(devs)
             m == LibvirtRegexMatch(dev.name)
         IN  IF ~dev.pci
             THEN DeviceListLoop_warnAlways(vm, Tail(devs), h, objs, log, w)
             ELSE IF m.ok
             THEN DeviceListLoop_warnAlways(vm, Tail(devs),
                                 Append(h, PCIDevice(vm, m.ident, "PCIDevice")),
                                 Append(objs, Len(h) + 1), log, w)
             ELSE DeviceListLoop_warnAlways(vm, Tail(devs), h, objs,
                                 Append(log, "Unsupported device: " \o dev.name),
                                 w \cup {dev.name})

\* the loop of on_device_list_pci: the heap, the objects yielded, the
\* warnings logged and unsupported_devices_warned after it
RECURSIVE DeviceListLoop(_, _, _, _, _, _)
DeviceListLoop(vm, devs, h, objs, log, w) ==
    IF devs = <<>>
    THEN [heap |-> h, objs |-> objs, log |-> log, warned |-> w, queries |-> 0]
    ELSE LET dev == Head(devs)
             m == LibvirtRegexMatch(dev.name)
         IN  IF ~dev.pci
             THEN DeviceListLoop(vm, Tail(devs), h, objs, log, w)
             ELSE IF m.ok
             THEN DeviceListLoop(vm, Tail(devs),
                                 Append(h, PCIDevice(vm, m.ident, "PCIDevice")),
                                 Append(objs, Len(h) + 1), log, w)
             ELSE IF dev.name \notin w
             THEN DeviceListLoop(vm, Tail(devs), h, objs,
                                 Append(log, "Unsupported device: " \o dev.name),
                                 w \cup {dev.name})
             ELSE DeviceListLoop(vm, Tail(devs), h, objs, log, w)

\* the calls on_device_list_pci makes to libvirt when it lists devs:
\* listAllDevices(), listCaps() of each device and XMLDesc() of each device
\* that has the capability 'pci'
ListQueries(devs) ==
    1 + Len(devs) + Len(SelectSeq(devs, LAMBDA dev : dev.pci))

\* on_device_list_pci without the test of vm.qid
on_device_list_pci_anyDomain(vm, h, w) ==
    [DeviceListLoop(vm, listAllDevices, h, <<>>, <<>>, w)
        EXCEPT !.queries = ListQueries(listAllDevices)]

\* PCIDeviceExtension.on_device_list_pci; a libvirt name is never empty, so
\* that "if libvirt_name:" of PCIDevice.__init__ always takes the branch
\* that matches the name
on_device_list_pci(vm, h, w) ==
    IF ~IsAdminVM(vm)
    THEN [heap |-> h, objs |-> <<>>, log |-> <<>>, warned |-> w, queries |-> 0]
    ELSE [DeviceListLoop(vm, listAllDevices, h, <<>>, <<>>, w)
            EXCEPT !.queries = ListQueries(listAllDevices)]

\* the event device-list:pci is fired on domain vm
DeviceList(vm) ==
    LET x == on_device_list_pci(vm, heap, warned)
    IN  /\ Len(x.heap) <= MaxObjs
        /\ heap' = x.heap
        /\ warned' = x.warned
        /\ acc' = [IdleAcc EXCEPT !.op = "device-list:pci", !.vm = vm,
                                  !.objs = x.objs, !.out = PyList(x.log),
                                  !.queries = x.queries]
        /\ inv' = IdleInv
        /\ binds' = <<>>
        /\ UNCHANGED <<running, bound, attached, cache, cleared>>
        /\ UNCHANGED topoVars
        /\ UNCHANGED classVars
        /\ UNCHANGED loopVars

\* the <address> of a hostdev in the libvirt XML of a guest: bus, slot and
\* function as 0x.. attributes
HostdevAddress(n) ==
    [bus |-> "0x" \o Fmt02x(NodeBus(n)), slot |-> "0x" \o Topology[n].device,
     function |-> "0x" \o Topology[n].function]

\* the loop of on_device_list_attached over the hostdevs of the guest
RECURSIVE ListAttachedLoop(_, _, _)
ListAttachedLoop(devs, h, objs) ==
    IF devs = {} THEN [heap |-> h, objs |-> objs]
    ELSE LET n == CHOOSE x \in devs : \A y \in devs : x <= y
             address == HostdevAddress(n)
             ident == Drop(address.bus, 2) \o "_" \o Drop(address.slot, 2)
                          \o "." \o Drop(address.function, 2)
         IN  ListAttachedLoop(devs \ {n},
                              Append(h, PCIDevice("dom0", ident, "PCIDevice")),
                              Append(objs, Len(h) + 1))

\* PCIDeviceExtension.on_device_list_attached
on_device_list_attached(vm, is_running, h) ==
    IF ~is_running \/ IsAdminVM(vm) THEN [heap |-> h, objs |-> <<>>]
    ELSE ListAttachedLoop({d \in PciDevices : attached[d] = vm}, h, <<>>)

\* the event device-list-attached:pci is fired on domain vm
DeviceListAttached(vm) ==
    LET x == on_device_list_attached(vm, running[vm], heap)
    IN  /\ Len(x.heap) <= MaxObjs
        /\ heap' = x.heap
        /\ acc' = [IdleAcc EXCEPT !.op = "device-list-attached:pci",
                                  !.objs = x.objs]
        /\ inv' = IdleInv
        /\ binds' = <<>>
        /\ UNCHANGED <<running, bound, attached, cache, cleared, warned>>
        /\ UNCHANGED topoVars
        /\ UNCHANGED classVars
        /\ UNCHANGED loopVars

\* the properties of a PCIDevice that load lazily
Properties == {"vendor", "product", "interfaces", "self_identity"}

\* the answers that stand for "not asked"
NoLookup == "ok"

NoClassRead == "0x020000\n"

\* property prop of object number obj is read
Property(prop, o, is_running, lookup, class_read) ==
    IF prop = "vendor" THEN vendor(o, is_running, lookup)
    ELSE IF prop = "product" THEN product(o, is_running, lookup)
    ELSE IF prop = "interfaces" THEN interfaces(o, lookup, class_read)
    ELSE self_identity(o, is_running, lookup, class_read)

Access(obj, prop, lookup, class_read) ==
    LET is_running == running[heap[obj].backend_domain]
        r == Property(prop, heap[obj], is_running, lookup, class_read)
    IN  /\ heap[obj] # Collected
        /\ r.queries = 0 => lookup = NoLookup
        /\ (r.o.interfaces = heap[obj].interfaces) => class_read = NoClassRead
        /\ heap' = [heap EXCEPT ![obj] = r.o]
        /\ acc' = [IdleAcc EXCEPT !.op = prop, !.obj = obj,
                                  !.is_running = is_running, !.out = r.out,
                                  !.exc = r.exc, !.queries = r.queries]
        /\ inv' = IdleInv
        /\ binds' = <<>>
        /\ UNCHANGED <<running, bound, attached, cache, cleared, warned>>
        /\ UNCHANGED topoVars
        /\ UNCHANGED classVars
        /\ UNCHANGED loopVars

\* what the last frontend_domain call on object obj returned, if the record
\* still tells
LastFrontend(obj) ==
    IF acc.obj # obj THEN Never
    ELSE IF acc.op = "frontend_domain" THEN acc.out
    ELSE IF acc.op = "" THEN acc.before
    ELSE Never

\* frontend_domain of object number obj is read
FrontendDomain(obj) ==
    /\ heap[obj] # Collected
    /\ acc' = [IdleAcc EXCEPT !.op = "frontend_domain", !.obj = obj,
                              !.is_running =
                                  running[heap[obj].backend_domain],
                              !.out = frontend_domain(heap[obj], XsRecords),
                              !.before = LastFrontend(obj)]
    /\ inv' = IdleInv
    /\ binds' = <<>>
    /\ UNCHANGED <<running, bound, attached, heap, cache, cleared, warned>>
    /\ UNCHANGED topoVars
    /\ UNCHANGED classVars
    /\ UNCHANGED loopVars

\* the backend store changes: device dev is given to owner, moved to owner,
\* or taken away (owner "none"); only a running guest holds a device
StoreChange(dev, owner) ==
    /\ attached[dev] # owner
    /\ owner \in Domains => running[owner]
    /\ attached' = [attached EXCEPT ![dev] = owner]
    /\ acc' = [IdleAcc EXCEPT !.obj = acc.obj,
                              !.before = LastFrontend(acc.obj)]
    /\ inv' = IdleInv
    /\ binds' = <<>>
    /\ UNCHANGED <<running, bound, heap, cache, cleared, warned>>
    /\ UNCHANGED topoVars
    /\ UNCHANGED classVars
    /\ UNCHANGED loopVars

\* the events that construct PCIDevice objects
DevNext ==
    \/ \E vm \in GetDomains : \E ident \in GetIdents :
         \E offline_mode \in BOOLEAN : DeviceGet(vm, ident, offline_mode)
    \/ AppClose
    \/ \E vm \in Domains : DeviceList(vm)
    \/ \E vm \in Domains : DeviceListAttached(vm)
    \/ \E dev \in PciDevices : \E owner \in Owners \cup {"none"} :
         StoreChange(dev, owner)
    \/ \E vm \in Domains : GuestStart(vm)
    \/ \E vm \in Domains : GuestStop(vm)

\* the lazily loaded properties of the objects device-get:pci returns
ObjNext ==
    \/ DeviceGet("work", Ident(1), FALSE)
    \/ AppClose
    \/ \E obj \in 1..Len(heap) : \E prop \in Properties :
         \E lookup \in DescLookups : \E class_read \in ClassReads :
           Access(obj, prop, lookup, class_read)
    \/ GuestStart("work")
    \/ GuestStop("work")

\* frontend_domain and the backend store
StoreNext ==
    \/ \E dev \in PciDevices : DeviceGet("dom0", Ident(dev), FALSE)
    \/ \E obj \in 1..Len(heap) : FrontendDomain(obj)
    \/ \E dev \in PciDevices : \E owner \in Owners \cup {"none"} :
         StoreChange(dev, owner)
    \/ \E vm \in Domains : GuestStart(vm)
    \/ \E vm \in Domains : GuestStop(vm)

-----------------------------------------------------------------------------
(* qubes/utils.py: is_pci_path, and the codec called on identifiers that
   come from the persisted configuration *)

\* root_buses of is_pci_path with the ":" of the directory name kept
PathRootBuses_colons ==
    {Drop(d, 3) : d \in {e \in ListDevicesDir : StartsWith(e, "pci")}}

\* root_buses of is_pci_path: dev[3:].replace(":", "_") of the entries
\* starting with "pci"
PathRootBuses ==
    {Replace(Drop(d, 3), ":", "_") :
        d \in {e \in ListDevicesDir : StartsWith(e, "pci")}}

\* the identifier matched as it is given
WithSegment_asGiven(device_id) == device_id

\* the segment prefix added for easier matching
WithSegment(device_id) ==
    IF Len(device_id) > 2 /\ Ch(device_id, 3) = "_"
    THEN "0000_" \o device_id
    ELSE device_id

\* (-[0-9a-f]{2}_[0-9a-f]{2}\.[0-9a-f])*\Z
RECURSIVE HopsReMatch(_)
HopsReMatch(t) ==
    \/ t = ""
    \/ /\ Len(t) >= 8
       /\ Ch(t, 1) = "-"
       /\ AllHex(SubSeq(t, 2, 3))
       /\ Ch(t, 4) = "_"
       /\ AllHex(SubSeq(t, 5, 6))
       /\ Ch(t, 7) = "."
       /\ AllHex(SubSeq(t, 8, 8))
       /\ HopsReMatch(Drop(t, 8))

\* path_re: \A(<root_buses joined by |>)_[0-9a-f]{2}\.[0-9a-f](-...)*\Z
PathReMatch(s, root_buses) ==
    \E r \in root_buses :
        LET t == Drop(s, Len(r))
        IN  /\ StartsWith(s, r)
            /\ Len(t) >= 5
            /\ Ch(t, 1) = "_"
            /\ AllHex(SubSeq(t, 2, 3))
            /\ Ch(t, 4) = "."
            /\ AllHex(SubSeq(t, 5, 5))
            /\ HopsReMatch(Drop(t, 5))

is_pci_path(device_id) == PathReMatch(WithSegment(device_id), PathRootBuses)

\* bool as the value of a call record
Bool(b) == Ok(IF b THEN "True" ELSE "False")

\* the legacy flat identifier bb_dd.f of node n
FlatId(n) ==
    Fmt02x(NodeBus(n)) \o "_" \o Topology[n].device \o "."
        \o Topology[n].function

\* legacy identifiers found in a persisted configuration: those of the
\* devices of segment 0000, and two of devices the tree does not have
LegacyIds ==
    {FlatId(n) : n \in {m \in Nodes : Topology[m].segment = "0000"}}
        \cup {"00_1f.0", "05_00.0"}

\* port identifiers found in a persisted configuration that the live tree
\* did not produce: a hop without separators after two hops that resolve, a
\* hop without a function, and a path through a bridge the tree does not
\* have
StoredPaths ==
    {"00_03.0-00_00.0-0100.0", "00_03.0-00:00", "00_03.0-00_05.0-00_00.0"}

\* addresses of devices the tree does not have, on a root bus and on
\* another bus
AbsentIds == {"0000:00:1f.0", "0001:00:1f.0", "0000:05:00.0"}

\* is_pci_path(device_id) is called
IsPciPathCall(device_id) ==
    /\ call' = [fn |-> "is_pci_path", arg |-> device_id,
                out |-> Bool(is_pci_path(device_id)), node |-> 0,
                prev |-> "", since |-> NoDrift]
    /\ UNCHANGED <<sec, present, port_id, port_node, drift>>
    /\ UNCHANGED pciVars
    /\ UNCHANGED devVars
    /\ UNCHANGED classVars
    /\ UNCHANGED loopVars

\* a port identifier is read from the persisted configuration
Persist(path) ==
    /\ port_id' = path
    /\ port_node' = 0
    /\ drift' = NoDrift
    /\ call' = IdleCall
    /\ UNCHANGED <<sec, present>>
    /\ UNCHANGED pciVars
    /\ UNCHANGED devVars
    /\ UNCHANGED classVars
    /\ UNCHANGED loopVars

PathNext ==
    \/ \E n \in Nodes : \E id \in CallIds(n) : SbdfToPathCall(n, id)
    \/ \E id \in AbsentIds : SbdfToPathCall(0, id)
    \/ PathToSbdfCall
    \/ \E id \in LegacyIds \cup {port_id} : IsPciPathCall(id)
    \/ \E path \in StoredPaths : Persist(path)
    \/ \E n \in Hotplug : Unplug(n)
    \/ \E n \in Hotplug : Plug(n)

-----------------------------------------------------------------------------
(* qubes/vm/__init__.py: the migration of persisted PCI port identifiers *)

\* the migration without the test of is_pci_path
load_extras_noPathTest(port) ==
    LET r == sbdf_to_path(port)
    IN  IF port = "*" THEN [asked |-> "", out |-> Ok(port)]
        ELSE [asked |-> port,
              out |-> IF r.kind = "ok" /\ r.val # "" THEN r
                      ELSE IF r.kind \in {"ok", "None"} THEN Ok(port)
                      ELSE r]

\* the port id of a device of class pci as LocalVM.load_extras makes it from
\* the id of the node: out is the port id, or the exception raised, asked the
\* identifier passed to sbdf_to_path ("" if none was)
load_extras(port) ==
    LET r == sbdf_to_path(port)
    IN  IF port = "*" \/ is_pci_path(port) THEN [asked |-> "", out |-> Ok(port)]
        ELSE [asked |-> port,
              out |-> IF r.kind = "ok" /\ r.val # "" THEN r
                      ELSE IF r.kind \in {"ok", "None"} THEN Ok(port)
                      ELSE r]

\* the configuration is loaded, and saved with the port id it was loaded
\* with; prev of the record is the identifier passed to sbdf_to_path
LoadExtras ==
    LET x == load_extras(port_id)
    IN  /\ call' = [fn |-> "load_extras", arg |-> port_id, out |-> x.out,
                    node |-> 0, prev |-> x.asked, since |-> NoDrift]
        /\ port_id' = IF x.out.kind = "ok" THEN x.out.val ELSE port_id
        /\ port_node' = 0
        /\ drift' = NoDrift
        /\ UNCHANGED <<sec, present>>
        /\ UNCHANGED pciVars
        /\ UNCHANGED devVars
        /\ UNCHANGED classVars
        /\ UNCHANGED loopVars

LoadNext ==
    \/ \E id \in LegacyIds \cup StoredPaths : Persist(id)
    \/ LoadExtras
    \/ \E n \in Nodes : \E id \in CallIds(n) : SbdfToPathCall(n, id)
    \/ \E n \in Hotplug : Unplug(n)
    \/ \E n \in Hotplug : Plug(n)

-----------------------------------------------------------------------------
(* qubes/ext/pci.py: the class database *)

\* str.rstrip()
RECURSIVE Rstrip(_)
Rstrip(x) ==
    IF x # "" /\ Ch(x, Len(x)) \in {"\n", " ", "\t"}
    THEN Rstrip(Take(x, Len(x) - 1))
    ELSE x

\* s.split(sep, maxsplit)
RECURSIVE SplitMax(_, _, _)
SplitMax(s, sep, maxsplit) ==
    LET p == FindFrom(s, sep, 1)
    IN  IF maxsplit = 0 \/ p = 0 THEN <<s>>
        ELSE <<Take(s, p - 1)>>
                 \o SplitMax(Drop(s, p + Len(sep) - 1), sep, maxsplit - 1)

\* result[key] = class_name on a dict kept as a set of entries
ClassSet(result, key, class_name) ==
    {e \in result : e.key # key} \cup {[key |-> key, name |-> class_name]}

\* the keys of a table
Keys(table) == {e.key : e \in table}

\* table[key]
ClassGet(table, key) == (CHOOSE e \in table : e.key = key).name

\* the lines pci.ids is made of
PciIdsLines == {
    "# Syntax:\n",
    "C 02  Network controller\n",
    "\t00  Ethernet controller\n",
    "C 0c  Serial bus controller\n",
    "\t03  USB controller\n",
    "\t\t30  XHCI\n",
    "\t80\n" }

RECURSIVE FilesOfLen(_)
FilesOfLen(n) ==
    IF n = 0 THEN {<<>>}
    ELSE {Append(f, l) : f \in FilesOfLen(n - 1), l \in PciIdsLines}

\* the contents pci.ids can have
PciIdsFiles == UNION {FilesOfLen(n) : n \in 0..MaxLines}

\* the state of the loop of load_pci_classes before the first line; class_id
\* and subclass_id are only tested for truth and concatenated when true, so
\* None is kept as the empty string
LoadStart == [class_id |-> "", subclass_id |-> "", result |-> {}, exc |-> ""]

\* the test of the first branch: a programming-interface line under a
\* subclass
LoadProgIf(st, line) ==
    StartsWith(line, "\t\t") /\ st.class_id # "" /\ st.subclass_id # ""

\* the subclass branch that stores the generic entry only
LoadSubclass_genericOnly(st, line) ==
    LET p == SplitMax(Drop(line, 1), " ", 2)
    IN  IF Len(p) # 3 THEN [st EXCEPT !.exc = "ValueError"]
        ELSE [st EXCEPT
                !.subclass_id = p[1],
                !.result = ClassSet(@, st.class_id \o p[1] \o "00", p[3])]

\* the second branch: a subclass line
LoadSubclass(st, line) ==
    LET p == SplitMax(Drop(line, 1), " ", 2)
    IN  IF Len(p) # 3 THEN [st EXCEPT !.exc = "ValueError"]
        ELSE [st EXCEPT
                !.subclass_id = p[1],
                !.result = ClassSet(
                               ClassSet(@, st.class_id \o p[1] \o "00", p[3]),
                               st.class_id \o p[1], p[3])]

\* one iteration of the loop of load_pci_classes
LoadLine(st, raw) ==
    LET line == Rstrip(raw)
    IN  IF LoadProgIf(st, line)
        THEN LET p == SplitMax(Drop(line, 2), " ", 2)
             IN  IF Len(p) # 3 THEN [st EXCEPT !.exc = "ValueError"]
                 ELSE [st EXCEPT !.result =
                         ClassSet(@, st.class_id \o st.subclass_id \o p[1],
                                  p[3])]
        ELSE IF StartsWith(line, "\t") /\ st.class_id # ""
        THEN LoadSubclass(st, line)
        ELSE IF StartsWith(line, "C ")
        THEN LET p == SplitMax(line, " ", 3)
             IN  IF Len(p) # 4 THEN [st EXCEPT !.exc = "ValueError"]
                 ELSE [st EXCEPT
                         !.class_id = p[2],
                         !.subclass_id = "",
                         !.result = ClassSet(ClassSet(@, p[2] \o "0000", p[4]),
                                             p[2] \o "00", p[4])]
        ELSE st

RECURSIVE LoadLoop(_, _)
LoadLoop(st, lines) ==
    IF lines = <<>> \/ st.exc # "" THEN st
    ELSE LoadLoop(LoadLine(st, Head(lines)), Tail(lines))

\* load_pci_classes: the table, or the exception that leaves it
load_pci_classes(file) ==
    IF ~file.exists THEN [exc |-> "FileNotFoundError", result |-> {}]
    ELSE LET st == LoadLoop(LoadStart, file.lines)
         IN  [exc |-> st.exc, result |-> st.result]

\* pci_classes = None
NoClasses == [loaded |-> FALSE, table |-> {}]

\* what reading <sysfs_path>/class gives in a call of pcidev_class
ClassCodes == {"0x020000\n", "0x0c0330\n", "0x0c0300\n", "0x0c03fe\n",
               "0c0330\n", "0x028000\n", "OSError"}

\* the lookup with the programming interface kept in the key
ClassKey_withProgIf(class_id) == Take(class_id, 6)

\* class_id[0:4]
ClassKey(class_id) == Take(class_id, 4)

\* pcidev_class: the name returned or the exception raised, the value of
\* pci_classes after the call, and whether load_pci_classes returned a table
pcidev_class(class_read, classes, file) ==
    LET stripped == Strip(class_read)
        load == ~classes.loaded \/ classes.table = {}
        ld == load_pci_classes(file)
        after == IF load THEN [loaded |-> TRUE, table |-> ld.result]
                 ELSE classes
        class_id == IF StartsWith(stripped, "0x") THEN Drop(stripped, 2)
                    ELSE stripped
    IN  IF class_read = "OSError"
        THEN [out |-> "unknown", exc |-> "", classes |-> classes,
              built |-> FALSE]
        ELSE IF load /\ ld.exc # ""
        THEN [out |-> "", exc |-> ld.exc, classes |-> classes,
              built |-> FALSE]
        ELSE [out |-> IF ClassKey(class_id) \in Keys(after.table)
                      THEN ClassGet(after.table, ClassKey(class_id))
                      ELSE "unknown",
              exc |-> "", classes |-> after, built |-> load]

IdleCls == [op |-> "", class_read |-> "", out |-> "", exc |-> "",
            built |-> FALSE]

InitClass ==
    /\ pciids = [exists |-> FALSE, lines |-> <<>>]
    /\ pci_classes = NoClasses
    /\ built = 0
    /\ cls = IdleCls

\* the hwdata package is installed, before the first table is kept
InstallHwdata(lines) ==
    /\ ~pciids.exists
    /\ pci_classes = NoClasses
    /\ built = 0
    /\ pciids' = [exists |-> TRUE, lines |-> lines]
    /\ cls' = IdleCls
    /\ UNCHANGED <<pci_classes, built>>
    /\ UNCHANGED <<topoVars, pciVars, devVars>>
    /\ UNCHANGED loopVars

\* pcidev_class is called for a device whose class file reads class_read
PcidevClass(class_read) ==
    LET r == pcidev_class(class_read, pci_classes, pciids)
    IN  /\ built + (IF r.built THEN 1 ELSE 0) <= MaxBuilt
        /\ pci_classes' = r.classes
        /\ built' = built + (IF r.built THEN 1 ELSE 0)
        /\ cls' = [op |-> "pcidev_class", class_read |-> class_read,
                   out |-> r.out, exc |-> r.exc, built |-> r.built]
        /\ UNCHANGED pciids
        /\ UNCHANGED <<topoVars, pciVars, devVars>>
        /\ UNCHANGED loopVars

ClassNext ==
    \/ \E lines \in PciIdsFiles : InstallHwdata(lines)
    \/ \E class_read \in ClassCodes : PcidevClass(class_read)

-----------------------------------------------------------------------------
(* qubes/ext/pci.py: the handlers as the event loop runs them, step by step *)

IdleTask == [handler |-> "", vm |-> "", dev |-> 0, pc |-> "idle"]

\* no live part was run
NoGate ==
    [handler |-> "", vm |-> "", dev |-> 0, request |-> "", running |-> FALSE,
     r |-> Returned(<<>>, <<>>)]

\* a handler that gives the control back to the loop between
\* vm.is_running() and its request
Awaits_beforeRequest(handler) == TRUE

\* whether the handler gives the control back to the event loop between
\* vm.is_running() and its request: on_device_pre_attached_pci and
\* on_device_pre_detached_pci are plain functions, they have no await, and
\* xl pci-list is run with a blocking communicate()
Awaits(handler) == FALSE

\* the event loop can run the handler of another event
CanDispatch == task.pc = "idle" \/ Awaits(task.handler)

\* the handler runs from its entry to vm.is_running(): it returns if the guest
\* is not running, and goes on to the live part if it is
HandlerCheck(handler, vm, dev) ==
    /\ task.pc = "idle"
    /\ handler = "device-pre-attach:pci"
         => PreAttachRefusal(DeviceExists(Ident(dev)), vm) = ""
    /\ task' = IF running[vm]
               THEN [handler |-> handler, vm |-> vm, dev |-> dev,
                     pc |-> "checked"]
               ELSE IdleTask
    /\ gate' = [NoGate EXCEPT !.handler = handler, !.vm = vm, !.dev = dev]
    /\ UNCHANGED <<topoVars, pciVars, devVars, classVars, tasks, void>>

\* on_device_pre_attached_pci after vm.is_running() returned True
AttachLive(ans) ==
    LET vm == task.vm
        dev == task.dev
        r == PreAttachLive(ans)
        l == _cache_get(heap, cache, BackendDomain, Ident(dev))
    IN  /\ task.pc = "checked"
        /\ task.handler = "device-pre-attach:pci"
        /\ Len(l.heap) <= MaxObjs
        /\ gate' = [handler |-> task.handler, vm |-> vm, dev |-> dev,
                    request |-> IF Contains(r.calls, "attachDevice")
                                THEN "attachDevice" ELSE "",
                    running |-> running[vm], r |-> r]
        /\ task' = IdleTask
        /\ inv' = [handler |-> task.handler, vm |-> vm, dev |-> dev,
                   is_running |-> TRUE, exists |-> TRUE,
                   listed |-> attached[dev] = vm, r |-> r]
        /\ binds' = IF Contains(r.calls, "nodeDeviceLookupByName")
                    THEN <<WithBound(BindCall(dev, ans))>> ELSE <<>>
        /\ bound' = IF Contains(r.calls, "dettach") /\ ans.dettach = "ok"
                    THEN bound \cup {dev} ELSE bound
        /\ attached' = IF Contains(r.calls, "attachDevice")
                          /\ ans.attachDevice = "ok"
                       THEN [attached EXCEPT ![dev] = vm] ELSE attached
        /\ heap' = l.heap
        /\ cache' = l.cache
        /\ acc' = IdleAcc
        /\ UNCHANGED <<running, cleared, warned, tasks, void>>
        /\ UNCHANGED topoVars
        /\ UNCHANGED classVars

\* on_device_pre_detached_pci after vm.is_running() returned True
DetachLive(ans) ==
    LET vm == task.vm
        dev == task.dev
        listed == attached[dev] = vm
        r == PreDetachLive(listed, ans)
        l == _cache_get(heap, cache, BackendDomain, Ident(dev))
    IN  /\ task.pc = "checked"
        /\ task.handler = "device-pre-detach:pci"
        /\ ~listed => ans = NoDetachAnswer
        /\ Len(l.heap) <= MaxObjs
        /\ gate' = [handler |-> task.handler, vm |-> vm, dev |-> dev,
                    request |-> IF Contains(r.calls, "detachDevice")
                                THEN "detachDevice" ELSE "",
                    running |-> running[vm], r |-> r]
        /\ task' = IdleTask
        /\ inv' = [handler |-> task.handler, vm |-> vm, dev |-> dev,
                   is_running |-> TRUE, exists |-> DeviceExists(Ident(dev)),
                   listed |-> listed, r |-> r]
        /\ binds' = <<>>
        /\ attached' = IF Contains(r.calls, "detachDevice")
                          /\ ans.detachDevice = "ok"
                       THEN [attached EXCEPT ![dev] = "none"] ELSE attached
        /\ heap' = l.heap
        /\ cache' = l.cache
        /\ acc' = IdleAcc
        /\ UNCHANGED <<running, bound, cleared, warned, tasks, void>>
        /\ UNCHANGED topoVars
        /\ UNCHANGED classVars

\* the events the loop dispatches, one handler at a time
LoopNext ==
    \/ \E handler \in {"device-pre-attach:pci", "device-pre-detach:pci"} :
         \E vm \in Domains : \E dev \in PciDevices :
           HandlerCheck(handler, vm, dev)
    \/ \E ans \in AttachAnswers : AttachLive(ans)
    \/ \E ans \in DetachAnswers : DetachLive(ans)
    \/ CanDispatch /\ \E vm \in Domains : GuestStart(vm)
    \/ CanDispatch /\ \E vm \in Domains : GuestStop(vm)

-----------------------------------------------------------------------------
(* qubes/utils.py: void_coros_maybe *)

\* largest number of elements of values
MaxCoros == 3

\* an element of values: not a coroutine object, a coroutine that returns, a
\* coroutine that raises
ValueKinds == {"value", "returns", "raises"}

ValueLists == UNION {[1..n -> ValueKinds] : n \in 0..MaxCoros}

\* no call was made; exc is the position in values of the coroutine whose
\* exception the call raised (0: none), finished the tasks in the order they
\* finished
IdleVoid == [values |-> <<>>, pc |-> "", exc |-> 0, finished |-> <<>>]

\* coros: a task for each coroutine object of values, in the order of values;
\* a task that fails does so with the exception of its coroutine, named by
\* the position of the coroutine in values
RECURSIVE CreateTasks(_, _)
CreateTasks(values, i) ==
    IF i > Len(values) THEN <<>>
    ELSE IF values[i] = "value" THEN CreateTasks(values, i + 1)
    ELSE <<[arg |-> i, done |-> FALSE,
            exc |-> IF values[i] = "raises" THEN i ELSE 0]>>
             \o CreateTasks(values, i + 1)

\* the orders in which "for task in done" can visit the tasks: done is a set
\* of Task objects, which hash by identity
DoneOrders(n) ==
    {order \in [1..n -> 1..n] : \A i, k \in 1..n : i # k => order[i] # order[k]}

\* the loop over done from position i on: the exception of the first failed
\* task it visits (0: none failed)
RECURSIVE ResultLoop(_, _, _)
ResultLoop(coros, order, i) ==
    IF i > Len(order) THEN 0
    ELSE IF coros[order[i]].exc # 0 THEN coros[order[i]].exc
    ELSE ResultLoop(coros, order, i + 1)

InitLoop ==
    /\ task = IdleTask
    /\ gate = NoGate
    /\ tasks = <<>>
    /\ void = IdleVoid

\* void_coros_maybe(values) is called and runs to its await, or to its end
\* if values has no coroutine object
VoidCall(values) ==
    /\ void.pc # "waiting"
    /\ tasks' = CreateTasks(values, 1)
    /\ void' = [values |-> values,
                pc |-> IF tasks' = <<>> THEN "returned" ELSE "waiting",
                exc |-> 0, finished |-> <<>>]
    /\ UNCHANGED <<topoVars, pciVars, devVars, classVars, task, gate>>

\* the event loop runs task i to its end
TaskFinish(i) ==
    /\ void.pc = "waiting"
    /\ ~tasks[i].done
    /\ tasks' = [tasks EXCEPT ![i].done = TRUE]
    /\ void' = [void EXCEPT !.finished = Append(@, i)]
    /\ UNCHANGED <<topoVars, pciVars, devVars, classVars, task, gate>>

\* asyncio.wait(coros) returns once every task is done, and void_coros_maybe
\* asks each task of done for its result
VoidResume ==
    /\ void.pc = "waiting"
    /\ \A i \in DOMAIN tasks : tasks[i].done
    /\ \E order \in DoneOrders(Len(tasks)) :
         LET exc == ResultLoop(tasks, order, 1)
         IN  void' = [void EXCEPT !.pc = IF exc = 0 THEN "returned"
                                         ELSE "raised",
                                  !.exc = exc]
    /\ UNCHANGED tasks
    /\ UNCHANGED <<topoVars, pciVars, devVars, classVars, task, gate>>

CoroNext ==
    \/ \E values \in ValueLists : VoidCall(values)
    \/ \E i \in DOMAIN tasks : TaskFinish(i)
    \/ VoidResume

-----------------------------------------------------------------------------
(* Specifications *)

Init == InitTopo /\ InitPci /\ InitDev /\ InitClass /\ InitLoop

\* the codec and the device tree
TopoSpec == Init /\ [][TopoNext]_vars

\* the handlers, the guests and the device tree
PciSpec == Init /\ [][PciNext]_vars

\* the lookups and listings of PCIDevice objects and the cache
DevSpec == Init /\ [][DevNext]_vars

\* the lazily loaded properties of PCIDevice objects
ObjSpec == Init /\ [][ObjNext]_vars

\* frontend_domain against the backend store
StoreSpec == Init /\ [][StoreNext]_vars

\* is_pci_path and the codec on persisted identifiers, with devices coming
\* and going
PathSpec == Init /\ [][PathNext]_vars

\* the class database
ClassSpec == Init /\ [][ClassNext]_vars

\* the migration of the persisted port identifiers
LoadSpec == Init /\ [][LoadNext]_vars

\* the handlers under the event loop
LoopSpec == Init /\ [][LoopNext]_vars

\* void_coros_maybe and its tasks
CoroSpec == Init /\ [][CoroNext]_vars

-----------------------------------------------------------------------------
(* Properties of the topology codec, checked under TopoSpec *)

\* the hops of a path, without its segment prefix
Hops(path) ==
    LET parts == Split(path, "-")
        m == SegmentReMatch(parts[1])
    IN  IF m.ok THEN <<m.rest>> \o Tail(parts) ELSE parts

\* the segment prefix of a path ("" if it has none)
PrefixOf(path) ==
    LET m == SegmentReMatch(Split(path, "-")[1])
    IN  IF m.ok THEN m.segment ELSE ""

\* the device.function field of a hop bb_dd.f
DevFn(hop) == Drop(hop, FindFrom(hop, "_", 1))

\* number of bridges above node n
RECURSIVE Depth(_)
Depth(n) == IF Topology[n].parent = 0 THEN 0 ELSE 1 + Depth(Topology[n].parent)

\* two paths that differ at most in the bus field of hop number k (k = 0:
\* of any hop)
SameButBus(p, q, k) ==
    /\ PrefixOf(p) = PrefixOf(q)
    /\ Len(Hops(p)) = Len(Hops(q))
    /\ \A i \in 1..Len(Hops(p)) :
         /\ DevFn(Hops(p)[i]) = DevFn(Hops(q)[i])
         /\ (k # 0 /\ i # k) => Hops(p)[i] = Hops(q)[i]

\* C1: round trip. When path_to_sbdf is called on the path sbdf_to_path
\* returned for a device of the live tree, and the tree has not changed in
\* between, it returns exactly the address of that device.
C1_RoundTrip ==
    (call.fn = "path_to_sbdf" /\ port_node # 0 /\ drift = Same)
        => call.out = Ok(NodeName(port_node))

\* the three-hop device below two bridges was encoded and decoded back
C1_Witness ==
    /\ call.fn = "path_to_sbdf"
    /\ port_node = 3
    /\ drift = Same
    /\ Len(Hops(port_id)) = 3
    /\ call.out = Ok(NodeName(3))

\* C2: resolution after renumbering. When bridges were renumbered after the
\* path was computed and no device was plugged or unplugged, path_to_sbdf on
\* the old path returns the address the device has in the renumbered tree.
C2_ResolveAfterRenumbering ==
    (call.fn = "path_to_sbdf" /\ port_node # 0 /\ drift.kind = "renumbered")
        => call.out = Ok(NodeName(port_node))

\* the path of the three-hop device was resolved after the bridge right
\* above it got the secondary bus number 11
C2_Witness ==
    /\ call.fn = "path_to_sbdf"
    /\ port_node = 3
    /\ drift = Renumbered(2)
    /\ sec[2] = 11
    /\ call.out = Ok("0000:0c:00.0")

\* C3: path stability. When sbdf_to_path is called again for the device the
\* persisted path was computed for, after bridges were renumbered and no
\* device was plugged or unplugged, the new path has the same segment prefix,
\* the same number of hops and the same device.function in every hop; when
\* one bridge was renumbered, only the hop right below it can differ.
C3_PathStability ==
    (call.fn = "sbdf_to_path" /\ call.since.kind = "renumbered")
        => SameButBus(call.prev, call.out.val,
                      IF call.since.bridge = 0 THEN 0
                      ELSE Depth(call.since.bridge) + 2)

\* the path of the three-hop device was computed again after the bridge
\* right above it was renumbered
C3_Witness ==
    /\ call.fn = "sbdf_to_path"
    /\ call.node = 3
    /\ call.since = Renumbered(2)
    /\ Len(Hops(call.out.val)) = 3
    /\ Len(Hops(call.prev)) = 3

-----------------------------------------------------------------------------
(* Properties of the attach / detach handlers, checked under PciSpec *)

PreAttachEvent == "device-pre-attach:pci"

PreDetachEvent == "device-pre-detach:pci"

\* C4: when the guest runs and attachDevice fails, device-pre-attach:pci logs
\* the failure and returns normally.
C4_AttachFailureNotPropagated ==
    (inv.handler = PreAttachEvent /\ inv.is_running
         /\ inv.r.failed = "attachDevice")
        => (inv.r.exc = "" /\ inv.r.log # <<>>)

\* C5: in device-pre-detach:pci every failure of the guest-side helper or of
\* detachDevice is logged and raised again to the caller.
C5_DetachFailureRaised ==
    (inv.handler = PreDetachEvent
         /\ inv.r.failed \in {"qubes.DetachPciDevice", "detachDevice"})
        => /\ inv.r.exc \in {"CalledProcessError", "libvirtError"}
           /\ inv.r.log = <<"Failed to detach PCI device on the fly">>

\* detachDevice failed in an invocation of device-pre-detach:pci
C5_Witness ==
    /\ inv.handler = PreDetachEvent
    /\ inv.r.failed = "detachDevice"
    /\ inv.r.exc = "libvirtError"

\* C6: in device-pre-detach:pci for a running guest that lists the device,
\* the guest-side helper is invoked, detachDevice is requested only after it,
\* and not at all when the helper failed.
C6_HelperBeforeDetach ==
    inv.handler = PreDetachEvent
        => /\ (inv.is_running /\ inv.listed)
                => IndexOf(inv.r.calls, "qubes.DetachPciDevice") # 0
           /\ Contains(inv.r.calls, "detachDevice")
                => /\ IndexOf(inv.r.calls, "qubes.DetachPciDevice") # 0
                   /\ IndexOf(inv.r.calls, "qubes.DetachPciDevice")
                        < IndexOf(inv.r.calls, "detachDevice")
                   /\ inv.r.failed # "qubes.DetachPciDevice"

\* the helper and then detachDevice were called
C6_Witness ==
    /\ inv.handler = PreDetachEvent
    /\ inv.is_running
    /\ inv.listed
    /\ Contains(inv.r.calls, "qubes.DetachPciDevice")
    /\ Contains(inv.r.calls, "detachDevice")

\* C7: when device-pre-attach:pci is fired for a device absent from the
\* device tree, for dom0 or for a guest in pvh mode, it raises QubesException
\* and has issued neither a driver detach nor attachDevice.
C7_RefusedBeforeAction ==
    (inv.handler = PreAttachEvent
         /\ (~inv.exists \/ IsAdminVM(inv.vm) \/ VirtMode(inv.vm) = "pvh"))
        => /\ inv.r.exc = "QubesException"
           /\ inv.r.failed = ""
           /\ ~Contains(inv.r.calls, "dettach")
           /\ ~Contains(inv.r.calls, "attachDevice")

\* the attach of a present device to a running pvh guest was refused
C7_Witness ==
    /\ inv.handler = PreAttachEvent
    /\ inv.exists
    /\ VirtMode(inv.vm) = "pvh"
    /\ inv.is_running
    /\ inv.r.exc = "QubesException"

\* C8: in device-pre-attach:pci attachDevice is requested only after
\* bind_pci_to_pciback detached the driver and returned without error, and
\* not at all when the bind failed.
C8_AttachAfterBind ==
    inv.handler = PreAttachEvent
        => /\ Contains(inv.r.calls, "attachDevice")
                => /\ IndexOf(inv.r.calls, "dettach") # 0
                   /\ IndexOf(inv.r.calls, "dettach")
                        < IndexOf(inv.r.calls, "attachDevice")
                   /\ inv.r.failed \notin {"nodeDeviceLookupByName", "dettach"}
           /\ inv.r.failed \in {"nodeDeviceLookupByName", "dettach"}
                => ~Contains(inv.r.calls, "attachDevice")

\* attachDevice was requested after the bind
C8_Witness ==
    /\ inv.handler = PreAttachEvent
    /\ inv.r.calls = <<"_cache_get", "nodeDeviceLookupByName", "dettach",
                       "attachDevice">>

\* the calls that act on the driver, the guest or the hypervisor
LiveCalls == {"dettach", "attachDevice", "qubes.DetachPciDevice", "detachDevice"}

\* C9: when the guest is not running, device-pre-attach:pci (its checks
\* passed) and device-pre-detach:pci return without a driver detach, a
\* guest-side helper call, attachDevice or detachDevice.
C9_NoLiveActionWhenStopped ==
    (inv.handler \in {PreAttachEvent, PreDetachEvent} /\ ~inv.is_running)
        => /\ \A c \in LiveCalls : ~Contains(inv.r.calls, c)
           /\ inv.handler = PreDetachEvent => inv.r.exc = ""
           /\ (inv.handler = PreAttachEvent
                 /\ PreAttachRefusal(inv.exists, inv.vm) = "")
                => inv.r.exc = ""

\* device-pre-attach:pci passed its checks for a guest that is not running
C9_Witness ==
    /\ inv.handler = PreAttachEvent
    /\ ~inv.is_running
    /\ PreAttachRefusal(inv.exists, inv.vm) = ""
    /\ inv.r = Returned(<<>>, <<>>)

\* C10: in device-pre-detach:pci for a running guest that does not list the
\* device, the handler logs "already detached" and returns; neither the
\* guest-side helper nor detachDevice is called.
C10_AlreadyDetached ==
    (inv.handler = PreDetachEvent /\ inv.is_running /\ ~inv.listed)
        => /\ inv.r.exc = ""
           /\ inv.r.log = <<"Device already detached">>
           /\ ~Contains(inv.r.calls, "qubes.DetachPciDevice")
           /\ ~Contains(inv.r.calls, "detachDevice")

\* device-pre-detach:pci ran for a running guest that does not hold the device
C10_Witness ==
    /\ inv.handler = PreDetachEvent
    /\ inv.is_running
    /\ ~inv.listed
    /\ inv.r.log = <<"Device already detached">>

-----------------------------------------------------------------------------
(* Properties of bind_pci_to_pciback and domain-pre-start, checked under
   PciSpec *)

\* C11: bind_pci_to_pciback succeeds when the driver detach succeeds or
\* fails with VIR_ERR_INTERNAL_ERROR, also for a device that was bound
\* before; a lookup failing with VIR_ERR_NO_NODE_DEVICE raises
\* QubesException 'does not exist' and no detach is attempted; every other
\* failure of the lookup or of the detach is raised as the libvirt error it
\* was.
C11_BindClassification ==
    \A i \in DOMAIN binds :
        LET b == binds[i]
        IN  /\ (b.lookup = "ok" /\ b.dettach \in {"ok", "VIR_ERR_INTERNAL_ERROR"})
                 => (b.r.exc = "" /\ Contains(b.r.calls, "dettach"))
            /\ b.lookup = "VIR_ERR_NO_NODE_DEVICE"
                 => /\ b.r.exc = "QubesException"
                    /\ b.r.msg = "does not exist"
                    /\ ~Contains(b.r.calls, "dettach")
            /\ b.lookup \notin {"ok", "VIR_ERR_NO_NODE_DEVICE"}
                 => /\ b.r.exc = "libvirtError"
                    /\ b.r.msg = b.lookup
                    /\ ~Contains(b.r.calls, "dettach")
            /\ (b.lookup = "ok"
                  /\ b.dettach \notin {"ok", "VIR_ERR_INTERNAL_ERROR"})
                 => (b.r.exc = "libvirtError" /\ b.r.msg = b.dettach)

\* a device that was bound before was bound again, the driver answered
\* VIR_ERR_INTERNAL_ERROR and the bind succeeded
C11_Witness ==
    \E i \in DOMAIN binds :
        /\ binds[i].was_bound
        /\ binds[i].dettach = "VIR_ERR_INTERNAL_ERROR"
        /\ binds[i].r.exc = ""

PreStartEvent == "domain-pre-start"

\* C12: when domain-pre-start returns without error, bind_pci_to_pciback
\* was called exactly once for every device assigned to the guest, in the
\* order of the assignments, for devices bound before and not bound before
\* alike.
C12_PreStartBindsAll ==
    (inv.handler = PreStartEvent /\ inv.r.exc = "")
        => /\ Len(binds) = Len(AssignedDevices(inv.vm))
           /\ \A i \in DOMAIN binds : binds[i].dev = AssignedDevices(inv.vm)[i]
           /\ \A i \in DOMAIN binds : binds[i].r.exc = ""

\* domain-pre-start succeeded for a guest with two assigned devices, one of
\* them bound before and one not
C12_Witness ==
    /\ inv.handler = PreStartEvent
    /\ inv.r.exc = ""
    /\ Len(binds) = 2
    /\ \E i \in DOMAIN binds : binds[i].was_bound
    /\ \E i \in DOMAIN binds : ~binds[i].was_bound

-----------------------------------------------------------------------------
(* Properties of the cache, checked under DevSpec and ObjSpec *)

\* the objects that exist and were constructed after the last cache clear
Live == {i \in DOMAIN heap : i > cleared /\ heap[i] # Collected}

SameKey(a, b) ==
    /\ heap[a].backend_domain = heap[b].backend_domain
    /\ heap[a].ident = heap[b].ident

\* C13: between two cache clears all lookups through _cache_get for one
\* (backend domain, ident) return one and the same object: _cache_get never
\* made two objects for one key, and the object device-get:pci returns is
\* the one the cache holds for the key.
C13_SameObjectPerKey ==
    /\ \A a, b \in Live :
         (heap[a].made = "_cache_get" /\ heap[b].made = "_cache_get"
            /\ SameKey(a, b)) => a = b
    /\ (acc.op = "device-get:pci" /\ acc.obj # 0)
         => \E e \in cache :
               /\ e.obj = acc.obj
               /\ e.vm = heap[acc.obj].backend_domain
               /\ e.ident = heap[acc.obj].ident

\* device-get:pci returned an object that an earlier lookup had constructed
C13_Witness ==
    /\ acc.op = "device-get:pci"
    /\ acc.obj # 0
    /\ acc.out # Constructed
    /\ acc.obj < Len(heap)
    /\ acc.obj > cleared

\* C14: after qubes-close the cache is empty, and a lookup after it returns
\* an object constructed after the clear, which has none of the lazily
\* loaded values when it is constructed.
C14_FreshAfterClear ==
    /\ acc.op = "qubes-close" => cache = {}
    /\ \A e \in cache : e.obj > cleared
    /\ (acc.op = "device-get:pci" /\ acc.obj # 0)
         => /\ acc.obj > cleared
            /\ acc.out = Constructed => NoMetadata(heap[acc.obj])

\* the first lookup after a clear that dropped an object with loaded
\* metadata constructed a new object
C14_Witness ==
    /\ acc.op = "device-get:pci"
    /\ acc.before = DroppedLoaded
    /\ acc.out = Constructed
    /\ acc.obj > cleared
    /\ cleared > 0

\* C15: between two cache clears there are never two distinct PCIDevice
\* objects with the same (backend domain, ident), whichever handler made
\* them.
C15_OneInstancePerKey ==
    \A a, b \in Live : SameKey(a, b) => a = b

-----------------------------------------------------------------------------
(* Properties of the lazily loaded values, checked under ObjSpec *)

\* C16: a sentinel ("unknown", "0000") is never stored in an object, and no
\* access of vendor, product or self_identity made while the backend domain
\* is running returns one.
C16_SentinelNotMemoized ==
    /\ \A i \in DOMAIN heap :
         /\ heap[i].vendor # UnknownDesc.vendor
         /\ heap[i].product # UnknownDesc.product
         /\ heap[i].vendor_id # UnknownDesc.vendor_id
         /\ heap[i].product_id # UnknownDesc.product_id
    /\ (acc.op \in {"vendor", "product"} /\ acc.is_running /\ acc.exc = "")
         => acc.out # PyStr("unknown")
    /\ (acc.op = "self_identity" /\ acc.is_running /\ acc.exc = "")
         => (acc.out.vendor_id # "0000" /\ acc.out.product_id # "0000")

\* C17: self_identity raises nothing of its own (at most a failure of the
\* libvirt query passes through it), and the vendor-ID and product-ID fields
\* of the string it returns hold only characters of the allow-list.
C17_SelfIdentitySanitized ==
    acc.op = "self_identity"
        => /\ acc.exc \in {"", "libvirtError"}
           /\ acc.exc = ""
                => /\ OnlyAllowed(acc.out.vendor_id)
                   /\ OnlyAllowed(acc.out.product_id)

\* C18: an access made while the backend domain is not running leaves
\* interfaces unmemoized, and once interfaces is memoized every later access
\* returns that value, without a query and without changing it.
C18_InterfacesMemoizedWhenRunning ==
    [][acc' # acc /\ acc'.op \in {"interfaces", "self_identity"}
         => LET before == heap[acc'.obj].interfaces
                after == heap'[acc'.obj].interfaces
            IN  /\ (before = PyNone /\ ~acc'.is_running) => after = PyNone
                /\ before # PyNone => after = before
                /\ (before # PyNone /\ acc'.op = "interfaces")
                     => acc'.out = before /\ acc'.queries = 0]_vars

-----------------------------------------------------------------------------
(* Properties of frontend_domain and attached_devices, checked under
   StoreSpec *)

\* the guest the backend store records for the device with this ident
\* ("none" if it records none)
StoreOwner(ident) ==
    IF \E d \in PciDevices : Ident(d) = ident
    THEN attached[CHOOSE d \in PciDevices : Ident(d) = ident]
    ELSE "none"

\* C19: every call of frontend_domain returns the guest the backend store
\* records for the device at the time of the call, and None when it records
\* none, also after the store changed since the last call on the same
\* object.
C19_FrontendDomainFresh ==
    acc.op = "frontend_domain"
        => acc.out = IF StoreOwner(heap[acc.obj].ident) \in Domains
                     THEN PyStr(StoreOwner(heap[acc.obj].ident))
                     ELSE PyNone

\* frontend_domain was read again on an object after its device moved from
\* one guest to another
C19_Witness ==
    /\ acc.op = "frontend_domain"
    /\ acc.before = PyStr("work")
    /\ acc.out = PyStr("sys-net")

\* C20: attached_devices has no entry for a device of a record whose owner
\* is not in the domain collection, and maps the devices of every other
\* record to their owner.
C20_UnknownOwnerSkipped ==
    acc.op = "frontend_domain"
        => LET devices == attached_devices(XsRecords, {})
           IN  \A d \in PciDevices :
                   /\ attached[d] \notin Domains
                        => ~\E e \in devices : e.ident = Ident(d)
                   /\ attached[d] \in Domains
                        => /\ [ident |-> Ident(d), domain |-> attached[d]]
                                \in devices
                           /\ \A e \in devices :
                                  e.ident = Ident(d) => e.domain = attached[d]

\* frontend_domain found the owner of a device whose record comes after the
\* record of an unknown owner
C20_Witness ==
    /\ acc.op = "frontend_domain"
    /\ Len(XsRecords) = 2
    /\ XsRecords[1].domain = StaleDomain
    /\ XsRecords[2].domain = "work"
    /\ acc.out = PyStr("work")

-----------------------------------------------------------------------------
(* Properties of the class database, checked under ClassSpec *)

\* the class code a read of the class file stands for: stripped, without
\* the "0x" prefix
CodeOf(class_read) ==
    IF StartsWith(Strip(class_read), "0x") THEN Drop(Strip(class_read), 2)
    ELSE Strip(class_read)

\* line i of pci.ids is a subclass line (one tab)
IsSubclassLine(lines, i) ==
    StartsWith(lines[i], "\t") /\ ~StartsWith(lines[i], "\t\t")

\* line i of pci.ids is a programming-interface line (two tabs)
IsProgIfLine(lines, i) == StartsWith(lines[i], "\t\t")

IsClassLine(lines, i) == StartsWith(lines[i], "C ")

\* the id a line starts with, after its tabs or its "C "
LineId(lines, i) ==
    LET l == Rstrip(lines[i])
        body == IF IsProgIfLine(lines, i) THEN Drop(l, 2)
                ELSE IF IsClassLine(lines, i) THEN Drop(l, 2)
                ELSE Drop(l, 1)
    IN  Partition(body, " ")[1]

\* the name a line ends with, after the two spaces that follow its id
LineName(lines, i) == Partition(Rstrip(lines[i]), "  ")[3]

\* the number of the last class line before line i (0: none)
ClassAbove(lines, i) ==
    IF \E j \in 1..(i - 1) : IsClassLine(lines, j)
    THEN CHOOSE j \in 1..(i - 1) :
            /\ IsClassLine(lines, j)
            /\ \A k \in (j + 1)..(i - 1) : ~IsClassLine(lines, k)
    ELSE 0

\* the subclass lines of the class+subclass pair base that stand under a
\* class line
PairLines(lines, base) ==
    {i \in DOMAIN lines :
        /\ IsSubclassLine(lines, i)
        /\ ClassAbove(lines, i) # 0
        /\ LineId(lines, ClassAbove(lines, i)) \o LineId(lines, i) = base}

\* C21: with pci.ids missing, pcidev_class returns "unknown" and raises
\* nothing.
C21_MissingDatabaseUnknown ==
    (cls.op = "pcidev_class" /\ ~pciids.exists)
        => (cls.out = "unknown" /\ cls.exc = "")

\* C22: load_pci_classes builds the table at most once in a run, whatever
\* the table holds.
C22_TableBuiltOnce ==
    built <= 1

\* C23: the name pcidev_class returns is the one it returns for every class
\* code with the same first four digits; when pci.ids has a subclass line
\* for that class/subclass pair it is the name of such a line (or, for
\* subclass 00, of a line of the class), and it is "unknown" when the table
\* has no entry for the pair.
C23_ProgIfIgnored ==
    (cls.op = "pcidev_class" /\ cls.exc = "" /\ cls.class_read # "OSError")
        => LET base == Take(CodeOf(cls.class_read), 4)
               pair == PairLines(pciids.lines, base)
           IN  /\ \A r \in ClassCodes \ {"OSError"} :
                    Take(CodeOf(r), 4) = base
                        => pcidev_class(r, pci_classes, pciids).out = cls.out
               /\ pair # {}
                    => \/ cls.out \in {LineName(pciids.lines, i) : i \in pair}
                       \/ /\ Drop(base, 2) = "00"
                          /\ \E j \in DOMAIN pciids.lines :
                               /\ IsClassLine(pciids.lines, j)
                               /\ LineId(pciids.lines, j) = Take(base, 2)
                               /\ cls.out = LineName(pciids.lines, j)
               /\ base \notin Keys(pci_classes.table) => cls.out = "unknown"

\* a class code whose programming interface has no line in pci.ids got the
\* name of its subclass, while pci.ids has a line for another programming
\* interface of that subclass
C23_Witness ==
    /\ cls.op = "pcidev_class"
    /\ cls.class_read = "0x0c03fe\n"
    /\ cls.out = "USB controller"
    /\ "0c0330" \in Keys(pci_classes.table)
    /\ "0c03fe" \notin Keys(pci_classes.table)

\* C24: in the table load_pci_classes returned, every subclass line that
\* stands under a class line has the keys class+subclass+"00" and
\* class+subclass, and a subclass line with no class line before it has no
\* key.
C24_SubclassEntries ==
    pci_classes.loaded
        => \A i \in DOMAIN pciids.lines :
             IsSubclassLine(pciids.lines, i)
                => LET lines == pciids.lines
                       sub == LineId(lines, i)
                       c == ClassAbove(lines, i)
                   IN  IF c # 0
                       THEN {LineId(lines, c) \o sub \o "00",
                             LineId(lines, c) \o sub}
                                \subseteq Keys(pci_classes.table)
                       ELSE {sub \o "00", sub}
                                \cap Keys(pci_classes.table) = {}

\* a table built from a file with a subclass line before the first class
\* line and a subclass line under a class line
C24_Witness ==
    /\ pci_classes.loaded
    /\ \E i, j \in DOMAIN pciids.lines :
         /\ IsSubclassLine(pciids.lines, i)
         /\ ClassAbove(pciids.lines, i) = 0
         /\ IsSubclassLine(pciids.lines, j)
         /\ ClassAbove(pciids.lines, j) # 0

\* the lines of a file without line i
Without(lines, i) ==
    SubSeq(lines, 1, i - 1) \o SubSeq(lines, i + 1, Len(lines))

\* C25: in the table load_pci_classes returned, no key joins a class with a
\* subclass id that was read under an earlier class and under no line of
\* this class, and a
\* programming-interface line that follows a class line with no subclass
\* line in between adds nothing to the table.
C25_ClassLineResetsSubclass ==
    pci_classes.loaded
        => LET lines == pciids.lines
           IN  /\ \A i, j \in DOMAIN lines :
                    (/\ IsSubclassLine(lines, i)
                     /\ IsClassLine(lines, j)
                     /\ i < j
                     /\ LineId(lines, i) # "00"
                     /\ PairLines(lines,
                                  LineId(lines, j) \o LineId(lines, i)) = {})
                        => (LineId(lines, j) \o LineId(lines, i))
                               \notin Keys(pci_classes.table)
               /\ \A i \in DOMAIN lines :
                    (/\ IsProgIfLine(lines, i)
                     /\ ClassAbove(lines, i) # 0
                     /\ \A k \in (ClassAbove(lines, i) + 1)..(i - 1) :
                          ~IsSubclassLine(lines, k))
                        => pci_classes.table =
                             load_pci_classes(
                                 [pciids EXCEPT !.lines = Without(lines, i)]
                             ).result

-----------------------------------------------------------------------------
(* Properties of is_pci_path and of the codec on persisted identifiers,
   checked under PathSpec *)

\* s has the form bb_dd.f
FlatForm(s) ==
    /\ Len(s) = 7
    /\ AllHex(SubSeq(s, 1, 2))
    /\ Ch(s, 3) = "_"
    /\ AllHex(SubSeq(s, 4, 5))
    /\ Ch(s, 6) = "."
    /\ AllHex(SubSeq(s, 7, 7))

\* C26: is_pci_path returns false for every flat identifier bb_dd.f.
C26_FlatIsNoPath ==
    (call.fn = "is_pci_path" /\ FlatForm(call.arg))
        => call.out = Bool(FALSE)

\* C26, amended: for a flat identifier bb_dd.f, is_pci_path returns true
\* when bb is a root bus of segment 0000 and false otherwise.
C26_FlatIsPathOnRootBus ==
    (call.fn = "is_pci_path" /\ FlatForm(call.arg))
        => call.out = Bool(("0000:" \o Take(call.arg, 2)) \in RootBuses)

\* is_pci_path returned false for the flat identifier of a device behind a
\* bridge
C26_Witness ==
    /\ call.fn = "is_pci_path"
    /\ call.arg = FlatId(2)
    /\ ("0000:" \o Take(call.arg, 2)) \notin RootBuses
    /\ call.out = Bool(FALSE)

\* C27: is_pci_path returns true for every path of two or more hops: the
\* paths sbdf_to_path returned, and every stored path whose hops have the
\* form bb_dd.f and whose first hop is on a root bus.
C27_MultiHopIsPath ==
    (/\ call.fn = "is_pci_path"
     /\ call.arg = port_id
     /\ Len(Hops(call.arg)) >= 2
     /\ \/ port_node # 0
        \/ /\ \A i \in DOMAIN Hops(call.arg) : FlatForm(Hops(call.arg)[i])
           /\ ((IF PrefixOf(call.arg) = "" THEN "0000"
                ELSE PrefixOf(call.arg)) \o ":"
                   \o Take(Hops(call.arg)[1], 2)) \in RootBuses)
        => call.out = Bool(TRUE)

\* is_pci_path returned true for the two-hop path of the device of segment
\* 0001
C27_Witness ==
    /\ call.fn = "is_pci_path"
    /\ call.arg = port_id
    /\ port_node = 5
    /\ PrefixOf(call.arg) = "0001"
    /\ Len(Hops(call.arg)) = 2
    /\ call.out = Bool(TRUE)

\* the walk of a path through the live tree, hop by hop: leaf is the number
\* of the first hop, not the last, whose address has no
\* secondary_bus_number (0: none before a hop that does not parse), and dev
\* is the address of that hop
RECURSIVE HopWalk(_, _, _, _)
HopWalk(hops, segment, bus_offset, i) ==
    IF i > Len(hops) \/ ~PartRegexMatch(hops[i]).ok
    THEN [leaf |-> 0, dev |-> ""]
    ELSE LET m == PartRegexMatch(hops[i])
             dev == segment \o ":" \o Fmt02x(ParseHex(m.bus) + bus_offset)
                        \o ":" \o m.device \o "." \o m.function
             f == ReadSecondaryBusNumber(dev)
         IN  IF ~f.ok
             THEN IF i < Len(hops) THEN [leaf |-> i, dev |-> dev]
                  ELSE [leaf |-> 0, dev |-> ""]
             ELSE HopWalk(hops, segment, ParseDec(f.val), i + 1)

WalkOf(path) ==
    HopWalk(Hops(path),
            IF PrefixOf(path) = "" THEN "0000" ELSE PrefixOf(path), 0, 1)

\* some hop of the path is no (bus, device, function) triple
BadHop(path) ==
    \E i \in DOMAIN Hops(path) : ~PartRegexMatch(Hops(path)[i]).ok

\* C28: when a hop that is not the last names a device without a secondary
\* bus number, path_to_sbdf returns the address of that hop and raises
\* nothing.
C28_StopsAtLeaf ==
    (call.fn = "path_to_sbdf" /\ WalkOf(call.arg).leaf # 0)
        => call.out = Ok(WalkOf(call.arg).dev)

\* C28, amended: when a hop that is not the last names a device without a
\* secondary bus number, path_to_sbdf raises AssertionError at the next hop
\* and returns no address.
C28_AssertsAfterLeaf ==
    (call.fn = "path_to_sbdf" /\ WalkOf(call.arg).leaf # 0)
        => call.out = AssertionError

\* the path computed for the three-hop device was decoded after the bridge
\* right above the device was unplugged
C28_Witness ==
    /\ call.fn = "path_to_sbdf"
    /\ port_node = 3
    /\ 2 \notin present
    /\ WalkOf(call.arg).leaf = 2
    /\ call.out = AssertionError

\* C29: path_to_sbdf raises, and returns no address, when some hop is no
\* (bus, device, function) triple or when the address computed for a hop
\* that is not the last is not a bridge of the live tree.
C29_InvalidPathFails ==
    (call.fn = "path_to_sbdf"
        /\ (BadHop(call.arg) \/ WalkOf(call.arg).leaf # 0))
        => call.out \in {ValueError, AssertionError}

\* a path whose first two hops resolve in the live tree and whose third hop
\* does not parse was rejected
C29_Witness ==
    /\ call.fn = "path_to_sbdf"
    /\ Len(Hops(call.arg)) = 3
    /\ ~PartRegexMatch(Hops(call.arg)[3]).ok
    /\ PartRegexMatch(Hops(call.arg)[1]).ok
    /\ PartRegexMatch(Hops(call.arg)[2]).ok
    /\ WalkOf(call.arg).leaf = 0
    /\ {1, 2} \subseteq present
    /\ call.out = ValueError

\* C30: sbdf_to_path returns None for every well-formed address of a device
\* that is not in /sys/bus/pci/devices.
C30_AbsentDeviceNone ==
    LET m == SbdfRegexMatch(call.arg)
    IN  (/\ call.fn = "sbdf_to_path"
         /\ m.ok
         /\ ~PathExists((IF m.segment = "" THEN "0000" ELSE m.segment)
                            \o ":" \o m.bus \o ":" \o m.device \o "."
                            \o m.function))
            => call.out = None

-----------------------------------------------------------------------------
\* The events of the extension: device-list:pci

\* the names of the node devices libvirt lists with the capability 'pci'
PciNames == SelectSeq(listAllDevices, LAMBDA dev : dev.pci)

\* a name read as pci_0000_<bus>_<device>_<function>, by its fields
NameFields(name) ==
    LET f == Split(name, "_")
    IN  IF /\ Len(f) = 5 /\ f[1] = "pci" /\ f[2] = "0000"
           /\ \A i \in 3..5 : f[i] # "" /\ AllHex(f[i])
        THEN [ok |-> TRUE, bus |-> f[3], device |-> f[4], function |-> f[5]]
        ELSE [ok |-> FALSE, bus |-> "", device |-> "", function |-> ""]

\* the listed names that have the supported form
SupportedNames == SelectSeq(PciNames, LAMBDA dev : NameFields(dev.name).ok)

\* C31: after device-list:pci on dom0 the devices yielded are, in order, those
\* of the listed names of the form pci_0000_<bus>_<device>_<function>, each
\* with the ident <bus>_<device>.<function> and the same bus, device and
\* function; a name of any other form raised UnsupportedDevice (it is in
\* unsupported_devices_warned) and gave no object
C31_NameToIdent ==
    (acc.op = "device-list:pci" /\ IsAdminVM(acc.vm)) =>
        /\ Len(acc.objs) = Len(SupportedNames)
        /\ \A i \in 1..Len(acc.objs) :
              LET o == heap[acc.objs[i]]
                  f == NameFields(SupportedNames[i].name)
              IN  i <= Len(SupportedNames) =>
                    /\ o.ident = f.bus \o "_" \o f.device \o "." \o f.function
                    /\ o.bus = f.bus /\ o.device = f.device
                    /\ o.function = f.function
        /\ \A i \in 1..Len(PciNames) :
              ~NameFields(PciNames[i].name).ok => PciNames[i].name \in warned

\* a listing on dom0 that yielded a device and met an unsupported name
C31_Witness ==
    /\ acc.op = "device-list:pci" /\ IsAdminVM(acc.vm)
    /\ Len(acc.objs) = 2
    /\ heap[acc.objs[2]].ident = "0b_00.0"
    /\ "pci_0001_00_1c_0" \in warned

\* the warnings of a listing that name the device
WarningsFor(log, name) ==
    SelectSeq(log, LAMBDA line : line = "Unsupported device: " \o name)

C33_OnlyAdminListsDevices ==
    (acc.op = "device-list:pci" /\ ~IsAdminVM(acc.vm)) =>
        /\ acc.objs = <<>>
        /\ acc.queries = 0
        /\ acc.out.v = <<>>

\* a listing on a guest, after a listing on dom0 found devices
C33_Witness ==
    /\ acc.op = "device-list:pci" /\ acc.vm = "work"
    /\ acc.objs = <<>> /\ acc.queries = 0
    /\ Len(heap) = 2 /\ warned # {}

-----------------------------------------------------------------------------
\* The requests of one invocation of a handler

\* how many times an invocation made the request
Count(calls, request) == Len(SelectSeq(calls, LAMBDA c : c = request))

\* the requests made to the driver, the hypervisor and the guest
Requests == {"dettach", "attachDevice", "qubes.DetachPciDevice", "detachDevice"}

\* C34: one invocation of device-pre-attach:pci or device-pre-detach:pci
\* makes each of the requests dettach, attachDevice, qubes.DetachPciDevice
\* and detachDevice at most once, whether it succeeded or failed; one
\* invocation of domain-pre-start calls bind_pci_to_pciback at most once for
\* a device, with at most one dettach in it
C34_NoRetry ==
    /\ inv.handler \in {PreAttachEvent, PreDetachEvent} =>
          \A request \in Requests : Count(inv.r.calls, request) <= 1
    /\ inv.handler = PreStartEvent =>
          /\ \A d \in PciDevices :
                Len(SelectSeq(binds, LAMBDA b : b.dev = d)) <= 1
          /\ \A i \in DOMAIN binds :
                \A request \in Requests : Count(binds[i].r.calls, request) <= 1
          /\ Count(inv.r.calls, "dettach")
                = Len(SelectSeq(binds, LAMBDA b : Contains(b.r.calls, "dettach")))

\* a live attach whose attachDevice failed, requested once
C34_Witness ==
    /\ inv.handler = PreAttachEvent
    /\ inv.r.failed = "attachDevice"
    /\ Count(inv.r.calls, "attachDevice") = 1
    /\ Count(inv.r.calls, "dettach") = 1

-----------------------------------------------------------------------------
(* Properties of the handlers under the event loop, checked under LoopSpec *)

\* C35: once device-pre-attach:pci or device-pre-detach:pci has seen
\* vm.is_running() return True, the next step of the event loop is the live
\* part of the same handler, so that no other handler runs in between, and an
\* attachDevice or detachDevice is requested only while the guest is running
C35_NoWindowAfterRunningCheck ==
    [][/\ task.pc = "checked" =>
            /\ task'.pc = "idle"
            /\ gate'.handler = task.handler /\ gate'.vm = task.vm
            /\ running' = running
       /\ gate'.request # "" => gate'.running]_vars

\* a live detach requested for a running guest
C35_Witness ==
    /\ gate.handler = "device-pre-detach:pci"
    /\ gate.request = "detachDevice"
    /\ gate.running
    /\ task.pc = "idle"

-----------------------------------------------------------------------------
(* Properties of void_coros_maybe, checked under CoroSpec *)

\* the tasks that failed
FailedTasks == {i \in DOMAIN tasks : tasks[i].exc # 0}

\* C36: when void_coros_maybe ends, every coroutine of values has run to
\* completion, and if one or more failed it raises the exception of the
\* leftmost failed coroutine of values, in whatever order they finished
C36_LeftmostFailureRaised ==
    void.pc \in {"returned", "raised"} =>
        /\ \A i \in DOMAIN tasks : tasks[i].done
        /\ FailedTasks = {} => void.pc = "returned"
        /\ FailedTasks # {} =>
             /\ void.pc = "raised"
             /\ \A i \in FailedTasks : void.exc <= tasks[i].exc

-----------------------------------------------------------------------------
(* Properties of the hops sbdf_to_path writes, checked under TopoSpec *)

\* the nodes from the root bus down to node n
RECURSIVE Chain(_)
Chain(n) ==
    IF Topology[n].parent = 0 THEN <<n>>
    ELSE Append(Chain(Topology[n].parent), n)

\* the bus field of a hop bb_dd.f
BusField(hop) == SubSeq(hop, 1, FindFrom(hop, "_", 1) - 1)

\* C37: the path sbdf_to_path returns for a device of the tree has one hop
\* for each node from the root bus down to the device, in that order, each
\* with the device and function of its node; the bus field of the first hop
\* is the bus number of the node and that of every later hop the bus number
\* of its node minus the secondary bus number of the bridge above it; the
\* path has a segment prefix if and only if the segment is not 0000; and
\* 0000:02:00.0 behind the bridge 00:03.0 with secondary bus 2 gives
\* 00_03.0-00_00.0
C37_HopsRelativeToBridge ==
    (call.fn = "sbdf_to_path" /\ call.node # 0 /\ call.out.kind = "ok") =>
        LET chain == Chain(call.node)
            hops == Hops(call.out.val)
        IN  /\ Len(hops) = Len(chain)
            /\ \A k \in 1..Len(chain) :
                 k <= Len(hops) =>
                   /\ DevFn(hops[k]) = Topology[chain[k]].device \o "."
                                           \o Topology[chain[k]].function
                   /\ BusField(hops[k])
                        = Fmt02x(IF k = 1 THEN NodeBus(chain[k])
                                 ELSE NodeBus(chain[k]) - sec[chain[k - 1]])
            /\ PrefixOf(call.out.val)
                 = (IF Topology[call.node].segment = "0000" THEN ""
                    ELSE Topology[call.node].segment)
            /\ (call.arg = "0000:02:00.0" /\ sec[1] = 2)
                 => call.out.val = "00_03.0-00_00.0"

\* the device two bridges down, on a bus one above the secondary bus of the
\* bridge over it, which was renumbered
C37_Witness ==
    /\ call.fn = "sbdf_to_path"
    /\ call.node = 3
    /\ sec[2] = 11
    /\ call.arg = "0000:0c:00.0"
    /\ call.out = Ok("00_03.0-00_00.0-01_00.0")

-----------------------------------------------------------------------------
(* Properties of the codec on paths whose devices are gone, checked under
   PathSpec *)

\* C38: every address path_to_sbdf returns names a device of the live tree
C38_ReturnedAddressExists ==
    (call.fn = "path_to_sbdf" /\ call.out.kind = "ok")
        => PathExists(call.out.val)

\* C38, amended: when path_to_sbdf returns an address, every hop of the path
\* before the last names a bridge of the live tree; the last hop is not
\* looked up, and its address is returned whether the device exists or not
C38_BridgesAboveExist ==
    (call.fn = "path_to_sbdf" /\ call.out.kind = "ok")
        => /\ ~BadHop(call.arg)
           /\ WalkOf(call.arg).leaf = 0

\* the path of the device two bridges down was resolved after the device was
\* unplugged: the bridges are there, the address returned is not
C38_Witness ==
    /\ call.fn = "path_to_sbdf"
    /\ call.out.kind = "ok"
    /\ Len(Hops(call.arg)) = 3
    /\ 2 \in present /\ 3 \notin present
    /\ ~PathExists(call.out.val)

-----------------------------------------------------------------------------
(* Properties of the migration of port identifiers, checked under LoadSpec *)

\* C39: every path sbdf_to_path returns is a path for is_pci_path; loading a
\* port id that is a path leaves it as it is and passes nothing to
\* sbdf_to_path; and when a load converted an identifier, the next load of
\* the same configuration leaves the port id as the first load made it
C39_MigrationIdempotent ==
    [][/\ (call'.fn = "sbdf_to_path" /\ call'.out.kind = "ok")
            => is_pci_path(call'.out.val)
       /\ call'.fn = "load_extras" =>
            /\ call'.prev # "" => ~is_pci_path(call'.prev)
            /\ is_pci_path(call'.arg)
                 => call'.out = Ok(call'.arg) /\ call'.prev = ""
            /\ (call'.out.kind = "ok" /\ call'.out.val # call'.arg)
                 => is_pci_path(call'.out.val)
       /\ (/\ call.fn = "load_extras" /\ call.out.kind = "ok"
           /\ call.out.val # call.arg
           /\ call'.fn = "load_extras")
            => /\ call'.arg = call.out.val
               /\ call'.out = call.out
               /\ call'.prev = ""]_vars

\* a configuration whose legacy identifier was converted is loaded again
C39_Witness ==
    /\ call.fn = "load_extras"
    /\ call.arg = "00_03.0-00_00.0-01_00.0"
    /\ call.prev = ""
    /\ call.out = Ok(call.arg)
    /\ port_node = 0

-----------------------------------------------------------------------------
(* Properties of the assertions of sbdf_to_path, checked under TopoSpec *)

\* every node above n is a present bridge, and every node from the second
\* of the chain on has a bus number that is not below the secondary bus
\* number of the bridge above it
ConsistentAbove(n) ==
    \A k \in 2..Len(Chain(n)) :
        /\ Chain(n)[k - 1] \in present \cap Bridges
        /\ NodeBus(Chain(n)[k]) >= sec[Chain(n)[k - 1]]

\* C40: sbdf_to_path called with the address of a device of the tree never
\* fails an assertion of its bridge walk: the tree is consistent, so that at
\* every hop bus_offset is not -1 and the bus number is not below it, and for
\* a device that is present the walk ends with a path
C40_WalkAssertionsHold ==
    (call.fn = "sbdf_to_path" /\ call.node # 0) =>
        /\ call.out # AssertionError
        /\ call.node \in present =>
             /\ ConsistentAbove(call.node)
             /\ call.out.kind = "ok"

\* the walk went through two bridges whose secondary bus numbers have two
\* decimal digits
C40_Witness ==
    /\ call.fn = "sbdf_to_path"
    /\ call.node = 3
    /\ sec[1] = 10 /\ sec[2] = 11
    /\ call.out.kind = "ok"
    /\ Len(Hops(call.out.val)) = 3

====
